---- MODULE Spec2Model ----
(***************************************************************************)
(* ChatList: the concurrent fan-out of one prompt to several model APIs    *)
(* (src/network.py) and the window that shows its results (src/main.py,    *)
(* src/models.py).                                                         *)
(*                                                                         *)
(* One behaviour of Spec is one call send_to_models_sync(prompt, models,   *)
(* timeout) = asyncio.run(send_to_models(prompt, models, timeout)).  The   *)
(* asyncio event loop is modelled by its FIFO queue of ready handles; the  *)
(* HTTP transport (httpx) and the providers behind it are the environment. *)
(*                                                                         *)
(*   Spec        - one call, lists of up to MaxModels models               *)
(*   FairSpec    - the same with the fairness of the loop and the timers   *)
(*   WindowSpec  - the call made by RequestWorker and the slot of          *)
(*                 MainWindow that handles its signal                      *)
(*   AdapterSpec - one model, its provider answering with any status and   *)
(*                 body: the adapters as functions of the reply            *)
(*   TwiceSpec   - two calls in a row against a deterministic transport    *)
(*   ModelsSpec  - the table of models (src/db.py) edited on the models    *)
(*                 tab, then the send button                               *)
(*   SessionSpec - the window with its worker threads, the queue of their  *)
(*                 signals and the shared SQLite connection                *)
(*   FairSessionSpec - the session with the fairness of the threads and of *)
(*                 the GUI event loop                                      *)
(*   HistorySpec - the paging of the history tab over the table results    *)
(*   StoreSpec   - ResultsStore under the buttons of the results tab       *)
(*                                                                         *)
(* The Russian message texts of the source are transliterated, because     *)
(* string literals are ASCII here:                                         *)
(*   "API-ключ не настроен"             -> "API-klyuch ne nastroen"        *)
(*   "Превышено время ожидания ответа"  -> "Prevysheno vremya ozhidaniya   *)
(*                                          otveta"                        *)
(*   "Ошибка: "                         -> "Oshibka: "                     *)
(*   "HTTP ошибка: "                    -> "HTTP oshibka: "                *)
(***************************************************************************)
EXTENDS Integers, Sequences, FiniteSets, TLC

VARIABLES
    prompt,      \* argument prompt of send_to_models
    models,      \* argument models: the ordered list of model dicts
    timeout,     \* argument timeout
    pc,          \* position of the main coroutine
    ready,       \* the event loop's FIFO queue of ready task handles
    st,          \* st[i]: "pending" | "inflight" | "done", task of models[i]
    client,      \* client[i]: the adapter send_single created for models[i]
    io,          \* io[i]: what the transport delivered to the POST of call i
    task,        \* task[i]: the task's result or the exception it raised
    posts,       \* posts[i]: number of HTTP POSTs issued for models[i]
    doneOrder,   \* the task indices in the order the tasks finished
    results,     \* the list send_to_models returned
    escaped,     \* the exception that left send_to_models, or None
    heap,        \* the client objects created during the call, by identity
    refs,        \* refs[i]: the objects the task of models[i] holds
    history,     \* what the earlier call with the same arguments was
                 \* answered and returned
    gui,         \* the window and the batch: "waiting" | "shown" |
                 \* "error" | "slot raised"
    store,       \* MainWindow.results_store (ResultsStore)
    table,       \* ResultsTab.results_table: its rows
    dbModels,    \* the database: table models and its AUTOINCREMENT sequence
    dbResults,   \* the database: table results
    conn,        \* Database.connection and the threads inside a call of it
    win,         \* MainWindow and its request tab: the buttons, the progress
                 \* bar, the prompt editor, self.worker, self.improve_worker
    threads,     \* the QThread workers created so far, in creation order
    events,      \* the signals of the workers queued for the GUI thread
    hist         \* HistoryTab: its paging attributes and the rows it shows

\* The call of send_to_models, and with the table that shows its results.
loop == <<prompt, models, timeout, pc, ready, st, client, io, task, posts,
          doneOrder, results, escaped, heap, refs, history, gui>>
call == <<loop, table>>

\* The application around the call.
app == <<dbModels, dbResults, conn, win, threads, events, hist>>

vars == <<prompt, models, timeout, pc, ready, st, client, io, task, posts,
          doneOrder, results, escaped, heap, refs, history, gui, store,
          table, dbModels, dbResults, conn, win, threads, events, hist>>

(***************************************************************************)
(* Bounds of the model.                                                    *)
(***************************************************************************)
MaxModels == 3
\* The models added through the form of the models tab, and the worker
\* threads one session creates.
MaxRowId == 2
MaxThreads == 3
\* The rows the table results grows to.
MaxRows == 21

(***************************************************************************)
(* Values.                                                                 *)
(***************************************************************************)
\* Python's None (APIResponse.error default, no value yet).
None == "<None>"

\* BaseAPIClient.__init__: timeout: int = 60.
DefaultTimeout == 60

\* The keys send_single reads from a model dict.
Fields == {"id", "name", "provider", "api_url", "api_key_env", "model_id"}

\* The process environment read by os.getenv: KEY_SET holds a key,
\* KEY_EMPTY is set to the empty string, every other name is unset.
Environ == [KEY_SET |-> "sk-live", KEY_EMPTY |-> ""]

\* os.getenv(name, default).
Getenv(name, default) ==
    IF name \in DOMAIN Environ THEN Environ[name] ELSE default

\* str(KeyError(key)): the key's repr.
KeyErrorStr(key) == "'" \o key \o "'"

(***************************************************************************)
(* JSON values as response.json() returns them, and the Python operations  *)
(* the adapters apply to them.                                             *)
(***************************************************************************)
\* null, a string, an integer, a list, an object (its members in order).
JNull == [t |-> "null"]
JStr(s) == [t |-> "str", s |-> s]
JInt(n) == [t |-> "int", n |-> n]
JList(items) == [t |-> "list", items |-> items]
JObj(kv) == [t |-> "obj", kv |-> kv]
Member(k, v) == [k |-> k, v |-> v]

\* type(v).__name__ of the Python value of a JSON value.
TypeName(v) ==
    CASE v.t = "null" -> "NoneType"
      [] v.t = "str" -> "str"
      [] v.t = "int" -> "int"
      [] v.t = "list" -> "list"
      [] OTHER -> "dict"

\* The outcome of evaluating a Python expression: a value, or an exception
\* with its str().
Value(v) == [ok |-> TRUE, v |-> v, msg |-> ""]
Raise(msg) == [ok |-> FALSE, v |-> JNull, msg |-> msg]

HasKey(o, k) == \E n \in 1..Len(o.kv) : o.kv[n].k = k
Lookup(o, k) == o.kv[CHOOSE n \in 1..Len(o.kv) : o.kv[n].k = k].v

\* v[key] for a string key.
Subscript(v, key) ==
    CASE v.t = "obj" ->
           IF HasKey(v, key) THEN Value(Lookup(v, key))
           ELSE Raise(KeyErrorStr(key))
      [] v.t = "list" ->
           Raise("list indices must be integers or slices, not str")
      [] v.t = "str" -> Raise("string indices must be integers, not 'str'")
      [] OTHER -> Raise("'" \o TypeName(v) \o "' object is not subscriptable")

\* v[0].
First(v) ==
    CASE v.t = "list" ->
           IF v.items # <<>> THEN Value(v.items[1])
           ELSE Raise("list index out of range")
      [] v.t = "obj" -> Raise("0")
      [] v.t = "str" ->
           IF v.s # "" THEN Value(JStr(SubSeq(v.s, 1, 1)))
           ELSE Raise("string index out of range")
      [] OTHER -> Raise("'" \o TypeName(v) \o "' object is not subscriptable")

\* v.get(key, default): only a dict has the method.
Get(v, key, default) ==
    IF v.t = "obj"
    THEN Value(IF HasKey(v, key) THEN Lookup(v, key) ELSE default)
    ELSE Raise("'" \o TypeName(v) \o "' object has no attribute 'get'")

\* a + b.
Add(a, b) ==
    CASE a.t = "int" /\ b.t = "int" -> Value(JInt(a.n + b.n))
      [] a.t = "str" /\ b.t = "str" -> Value(JStr(a.s \o b.s))
      [] a.t = "list" /\ b.t = "list" -> Value(JList(a.items \o b.items))
      [] OTHER -> Raise("unsupported operand type(s) for +: '" \o TypeName(a)
                        \o "' and '" \o TypeName(b) \o "'")

\* A path of subscripts: Key(k) is [k], Idx0 is [0].
Key(k) == [key |-> k]
Idx0 == [idx |-> 0]

RECURSIVE Walk(_, _)
\* v[p1][p2]...: the first subscript that raises ends the walk.
Walk(v, path) ==
    IF path = <<>> THEN Value(v)
    ELSE LET step == Head(path)
             r == IF "key" \in DOMAIN step THEN Subscript(v, step.key)
                  ELSE First(v)
         IN  IF r.ok THEN Walk(r.v, Tail(path)) ELSE r

RECURSIVE Join(_, _)
\* sep.join(parts).
Join(parts, sep) ==
    IF parts = <<>> THEN ""
    ELSE IF Len(parts) = 1 THEN parts[1]
    ELSE parts[1] \o sep \o Join(Tail(parts), sep)

RECURSIVE Repr(_)
\* repr() of the Python value: what str() gives for a dict, a list, an int
\* or None (strings here hold no quote or escape).
Repr(v) ==
    CASE v.t = "null" -> "None"
      [] v.t = "str" -> "'" \o v.s \o "'"
      [] v.t = "int" -> ToString(v.n)
      [] v.t = "list" ->
           "[" \o Join([n \in 1..Len(v.items) |-> Repr(v.items[n])], ", ")
               \o "]"
      [] OTHER ->
           "{" \o Join([n \in 1..Len(v.kv) |->
                           "'" \o v.kv[n].k \o "': " \o Repr(v.kv[n].v)],
                       ", ") \o "}"

\* str() of the Python value, as an f-string formats it.
Str(v) == IF v.t = "str" THEN v.s ELSE Repr(v)

RECURSIVE Dumps(_)
\* The JSON text of a value, as a provider sends it (compact).
Dumps(v) ==
    CASE v.t = "null" -> "null"
      [] v.t = "str" -> "\"" \o v.s \o "\""
      [] v.t = "int" -> ToString(v.n)
      [] v.t = "list" ->
           "[" \o Join([n \in 1..Len(v.items) |-> Dumps(v.items[n])], ",")
               \o "]"
      [] OTHER ->
           "{" \o Join([n \in 1..Len(v.kv) |->
                           "\"" \o v.kv[n].k \o "\":" \o Dumps(v.kv[n].v)],
                       ",") \o "}"

\* The Python value an APIResponse field holds for a JSON value: a str, an
\* int, None; a list or a dict stays the parsed value.
PyValue(v) ==
    CASE v.t = "str" -> v.s
      [] v.t = "int" -> v.n
      [] v.t = "null" -> None
      [] OTHER -> v

(***************************************************************************)
(* src/network.py: APIResponse and the provider adapters.                  *)
(***************************************************************************)
\* @dataclass APIResponse(success, content, tokens = 0, error = None).
APIResponse(success, content, tokens, error) ==
    [success |-> success, content |-> content, tokens |-> tokens,
     error |-> error]

NotConfiguredMsg == "API-klyuch ne nastroen"
TimeoutMsg == "Prevysheno vremya ozhidaniya otveta"

\* Mutant of Failure: a failed response without its error.
FailureNoError(msg) == APIResponse(FALSE, "", 0, None)

\* The failed APIResponse every adapter builds: content "", tokens 0.
Failure(msg) == APIResponse(FALSE, "", 0, msg)

\* BaseAPIClient.__init__.
BaseAPIClient(cls, api_url, api_key_env, model_id, tmo) ==
    [cls |-> cls, api_url |-> api_url, api_key |-> Getenv(api_key_env, ""),
     model_id |-> model_id, timeout |-> tmo]

\* Mutant of is_configured: the check of the key is gone.
IsConfiguredAlways(c) == TRUE

\* No client: get_client was not reached, or raised.
NoClient ==
    [cls |-> None, api_url |-> None, api_key |-> None, model_id |-> None,
     timeout |-> 0]

\* BaseAPIClient.is_configured: bool(self.api_key).
is_configured(c) == c.api_key # ""

\* What the transport hands to "await client.post(...)": an HTTP response,
\* httpx.TimeoutException, or another exception (connection, DNS, TLS).
HttpResponse(status, body) ==
    [kind |-> "response", status |-> status, body |-> body, msg |-> ""]
TimeoutException ==
    [kind |-> "timeout", status |-> 0, body |-> None, msg |-> ""]
TransportError(msg) ==
    [kind |-> "error", status |-> 0, body |-> None, msg |-> msg]
NoReply == [kind |-> "none", status |-> 0, body |-> None, msg |-> ""]

\* A response body: response.text and what response.json() parses it to.
NotJson == [t |-> "invalid"]
Body(value) == [text |-> Dumps(value), parsed |-> value]
RawBody(text) == [text |-> text, parsed |-> NotJson]

\* str(e) of the exception response.json() raises on a body that is not JSON.
JsonDecodeMsg == "Expecting value: line 1 column 1 (char 0)"

\* response.json().
JsonOf(body) ==
    IF body.parsed = NotJson THEN Raise(JsonDecodeMsg) ELSE Value(body.parsed)

\* The members of an answer that report the usage, for every vendor at once
\* (usage.total_tokens, usage.input_tokens + usage.output_tokens,
\* usageMetadata.totalTokenCount):
\*   "reported"  - 7 tokens (3 in, 4 out)
\*   "absent"    - no usage object
\*   "empty"     - a usage object without the field
\*   "partial"   - only usage.input_tokens = 3
\*   "null"      - the usage object is null
\*   "nullfield" - the fields are null
UsageMembers(usage) ==
    CASE usage = "reported" ->
           <<Member("usage", JObj(<<Member("total_tokens", JInt(7)),
                                    Member("input_tokens", JInt(3)),
                                    Member("output_tokens", JInt(4))>>)),
             Member("usageMetadata",
                    JObj(<<Member("totalTokenCount", JInt(7))>>))>>
      [] usage = "empty" ->
           <<Member("usage", JObj(<<>>)), Member("usageMetadata", JObj(<<>>))>>
      [] usage = "partial" ->
           <<Member("usage", JObj(<<Member("input_tokens", JInt(3))>>)),
             Member("usageMetadata", JObj(<<>>))>>
      [] usage = "null" ->
           <<Member("usage", JNull), Member("usageMetadata", JNull)>>
      [] usage = "nullfield" ->
           <<Member("usage", JObj(<<Member("total_tokens", JNull),
                                    Member("input_tokens", JNull),
                                    Member("output_tokens", JNull)>>)),
             Member("usageMetadata",
                    JObj(<<Member("totalTokenCount", JNull)>>))>>
      [] OTHER -> <<>>

\* An answer holding the value content at the response-text path of every
\* vendor (choices[0].message.content, content[0].text,
\* candidates[0].content.parts[0].text), and the usage as in UsageMembers.
AnswerBody(content, usage) ==
    Body(JObj(<<
      Member("choices", JList(<<JObj(<<
          Member("message", JObj(<<Member("content", content)>>))>>)>>)),
      Member("content", JList(<<JObj(<<Member("text", content)>>)>>)),
      Member("candidates", JList(<<JObj(<<
          Member("content", JObj(<<
              Member("parts", JList(<<JObj(<<
                  Member("text", content)>>)>>))>>))>>)>>))
    >> \o UsageMembers(usage)))

\* A successful answer: the response text "hi" and a usage of 7 tokens.
BodyOk == AnswerBody(JStr("hi"), "reported")

\* {"error":{"message":"boom"}}
BodyBoom ==
    Body(JObj(<<Member("error", JObj(<<Member("message", JStr("boom"))>>))>>))

\* Python's s[:n].
Prefix(s, n) == SubSeq(s, 1, IF Len(s) < n THEN Len(s) ELSE n)

\* The error_msg of the "status_code != 200" branch of OpenAIClient and
\* OpenRouterClient:
\*   try:    error_data = response.json()
\*           error_msg = error_data.get("error", {}).get("message",
\*                                                       str(error_data))
\*   except Exception: error_msg = response.text[:200]
\* as the f-string of the error formats it.
ErrorMsg(body) ==
    LET d == JsonOf(body)
        e == IF d.ok THEN Get(d.v, "error", JObj(<<>>)) ELSE d
        m == IF e.ok THEN Get(e.v, "message", JStr(Repr(d.v))) ELSE e
    IN  IF m.ok THEN Str(m.v) ELSE Prefix(body.text, 200)

\* The vendor's response-text path.
ContentPath(cls) ==
    CASE cls = "AnthropicClient" -> <<Key("content"), Idx0, Key("text")>>
      [] cls = "GoogleClient" ->
           <<Key("candidates"), Idx0, Key("content"), Key("parts"), Idx0,
             Key("text")>>
      [] OTHER -> <<Key("choices"), Idx0, Key("message"), Key("content")>>

\* Mutant of UsageField: result[obj][field], no default.
UsageFieldSubscript(result, obj, field) ==
    Walk(result, <<Key(obj), Key(field)>>)

\* result.get(obj, {}).get(field, 0).
UsageField(result, obj, field) ==
    LET u == Get(result, obj, JObj(<<>>))
    IN  IF u.ok THEN Get(u.v, field, JInt(0)) ELSE u

\* The vendor's token usage.
Tokens(cls, result) ==
    CASE cls = "AnthropicClient" ->
           LET a == UsageField(result, "usage", "input_tokens")
               b == UsageField(result, "usage", "output_tokens")
           IN  IF ~a.ok THEN a ELSE IF ~b.ok THEN b ELSE Add(a.v, b.v)
      [] cls = "GoogleClient" ->
           UsageField(result, "usageMetadata", "totalTokenCount")
      [] OTHER -> UsageField(result, "usage", "total_tokens")

\* The part every adapter shares after a successful status:
\* result = response.json(); content = result[...]; tokens = ....get(..., 0);
\* an exception of any of them is caught by "except Exception".
ParseSuccess(cls, body) ==
    LET d == JsonOf(body)
        c == Walk(d.v, ContentPath(cls))
        t == Tokens(cls, d.v)
    IN  IF ~d.ok THEN Failure(d.msg)
        ELSE IF ~c.ok THEN Failure(c.msg)
        ELSE IF ~t.ok THEN Failure(t.msg)
        ELSE APIResponse(TRUE, PyValue(c.v), PyValue(t.v), None)

\* httpx Response.raise_for_status raises HTTPStatusError unless the status is
\* a 2xx one.
IsSuccessStatus(status) == status >= 200 /\ status <= 299

\* OpenAIClient.send_message / OpenRouterClient.send_message after the POST.
OpenAIReply(cls, reply) ==
    CASE reply.kind = "timeout" -> Failure(TimeoutMsg)
      [] reply.kind = "error" -> Failure(reply.msg)
      [] OTHER ->
           IF reply.status # 200
           THEN Failure("HTTP " \o ToString(reply.status) \o ": "
                        \o ErrorMsg(reply.body))
           ELSE ParseSuccess(cls, reply.body)

\* AnthropicClient.send_message / GoogleClient.send_message after the POST.
RaiseForStatusReply(cls, reply) ==
    CASE reply.kind = "timeout" -> Failure(TimeoutMsg)
      [] reply.kind = "error" -> Failure(reply.msg)
      [] OTHER ->
           IF ~IsSuccessStatus(reply.status)
           THEN Failure("HTTP oshibka: " \o ToString(reply.status))
           ELSE ParseSuccess(cls, reply.body)

\* send_message of an adapter, from the transport's reply to the APIResponse.
AdapterReply(c, reply) ==
    IF c.cls \in {"AnthropicClient", "GoogleClient"}
    THEN RaiseForStatusReply(c.cls, reply)
    ELSE OpenAIReply(c.cls, reply)

\* Mutant of ClientClass: the registry without a default.
ClientClassStrict(provider) ==
    CASE provider = "openai" -> "OpenAIClient"
      [] provider = "anthropic" -> "AnthropicClient"
      [] provider = "google" -> "GoogleClient"
      [] provider = "openrouter" -> "OpenRouterClient"
      [] OTHER -> None

\* get_client: the registry, with OpenAIClient as the default.
ClientClass(provider) ==
    CASE provider = "openai" -> "OpenAIClient"
      [] provider = "anthropic" -> "AnthropicClient"
      [] provider = "google" -> "GoogleClient"
      [] provider = "openrouter" -> "OpenRouterClient"
      [] OTHER -> "OpenAIClient"

get_client(provider, api_url, api_key_env, model_id) ==
    BaseAPIClient(ClientClass(provider), api_url, api_key_env, model_id,
                  DefaultTimeout)

(***************************************************************************)
(* src/network.py: send_to_models and its inner coroutine send_single.     *)
(***************************************************************************)
\* A model dict: keys is the set of keys the dict has (a row of the models
\* table has them all; the function itself takes any list[dict]).
ModelDict(id, name, provider, api_key_env, missing) ==
    [keys |-> Fields \ missing, id |-> id, name |-> name,
     provider |-> provider, api_url |-> "https://api.example/v1",
     api_key_env |-> api_key_env, model_id |-> "m-1"]

\* A task's result: the dict send_single returned, or the exception it raised.
TaskResult(value) == [kind |-> "result", value |-> value, msg |-> ""]
TaskException(msg) == [kind |-> "exception", value |-> None, msg |-> msg]
NoResult == [kind |-> "none", value |-> None, msg |-> ""]

\* The keys get_client's arguments read, in evaluation order (lines 398-403).
ClientKeys == <<"provider", "api_url", "api_key_env", "model_id">>

\* The first key of a sequence of keys the dict lacks, None when it has all.
FirstMissing(model, ks) ==
    IF \E k \in 1..Len(ks) : ks[k] \notin model.keys
    THEN ks[CHOOSE k \in 1..Len(ks) :
                /\ ks[k] \notin model.keys
                /\ \A j \in 1..(k - 1) : ks[j] \in model.keys]
    ELSE None

\* Mutant of ResponseText: a failure's text is the bare error detail.
ResponseTextBare(response) ==
    IF response.success THEN response.content ELSE response.error

\* The response text of an outcome:
\* response.content if response.success else f"Ошибка: {response.error}".
ResponseText(response) ==
    IF response.success THEN response.content
    ELSE "Oshibka: " \o response.error

\* send_single, lines 408-416: the dict built from the APIResponse; reading
\* model["id"] or model["name"] raises KeyError when the dict lacks the key.
BuildOutcome(model, p, response) ==
    LET missing == FirstMissing(model, <<"id", "name">>) IN
    IF missing # None THEN TaskException(KeyErrorStr(missing))
    ELSE TaskResult([model_id |-> model.id, model_name |-> model.name,
                     prompt_text |-> p, response |-> ResponseText(response),
                     tokens |-> response.tokens,
                     success |-> response.success,
                     error |-> response.error])

\* Mutant of MakeClient: the client keeps the timeout of its constructor.
MakeClientDefault(model, tmo) ==
    get_client(model.provider, model.api_url, model.api_key_env,
               model.model_id)

\* send_single, lines 398-404: the client of a model whose dict has every key
\* get_client reads; client.timeout = timeout.
MakeClient(model, tmo) ==
    [get_client(model.provider, model.api_url, model.api_key_env,
                model.model_id) EXCEPT !.timeout = tmo]

\* Mutant of Gather: the results in the order the tasks finished.
GatherAsCompleted(taskResults, order) ==
    [k \in 1..Len(order) |-> taskResults[order[k]]]

\* asyncio.gather(*tasks, return_exceptions=True): the results (or raised
\* exceptions) of the tasks, in the order of the awaitables passed in.
Gather(taskResults, order) ==
    [i \in 1..Len(taskResults) |-> taskResults[i]]

\* The dict of lines 425-433 for a task that raised.
ExceptionOutcome(model, p, msg) ==
    [model_id |-> model.id, model_name |-> model.name, prompt_text |-> p,
     response |-> "Oshibka: " \o msg, tokens |-> 0, success |-> FALSE,
     error |-> msg]

\* Mutant of ProcessResults: a task that raised gets no entry.
ProcessResultsSkip(gathered, ms, p) ==
    LET kept == SelectSeq(gathered, LAMBDA g : g.kind # "exception")
    IN  [raised |-> None, value |-> [i \in 1..Len(kept) |-> kept[i].value]]

\* Mutant of ProcessResults: gather without return_exceptions, the first
\* exception of a task leaves send_to_models.
ProcessResultsPropagate(gathered, ms, p) ==
    IF \E i \in 1..Len(gathered) : gathered[i].kind = "exception"
    THEN [raised |-> gathered[CHOOSE k \in 1..Len(gathered) :
                                 gathered[k].kind = "exception"].msg,
          value |-> <<>>]
    ELSE [raised |-> None,
          value |-> [i \in 1..Len(gathered) |-> gathered[i].value]]

\* Lines 422-437: the loop over the gathered results.  Building the dict of a
\* raised task reads models[i]["id"] and models[i]["name"] again, outside any
\* task, so a KeyError there leaves send_to_models.
ProcessResults(gathered, ms, p) ==
    LET bad(i) == /\ gathered[i].kind = "exception"
                  /\ FirstMissing(ms[i], <<"id", "name">>) # None
    IN  IF \E i \in 1..Len(gathered) : bad(i)
        THEN LET i == CHOOSE k \in 1..Len(gathered) :
                          bad(k) /\ \A j \in 1..(k - 1) : ~bad(j)
             IN  [raised |-> KeyErrorStr(FirstMissing(ms[i], <<"id", "name">>)),
                  value |-> <<>>]
        ELSE [raised |-> None,
              value |-> [i \in 1..Len(gathered) |->
                            IF gathered[i].kind = "exception"
                            THEN ExceptionOutcome(ms[i], p, gathered[i].msg)
                            ELSE gathered[i].value]]

\* Mutant of Alloc: one object per class, shared by the calls that ask for it.
AllocShared(h, kind) ==
    IF \E k \in 1..Len(h) : h[k] = kind
    THEN [heap |-> h, ref |-> CHOOSE k \in 1..Len(h) : h[k] = kind]
    ELSE [heap |-> Append(h, kind), ref |-> Len(h) + 1]

\* Calling a class (client_class(...), httpx.AsyncClient(...)) creates a new
\* object: h is the sequence of the objects there are, an object's identity
\* its position.
Alloc(h, kind) == [heap |-> Append(h, kind), ref |-> Len(h) + 1]

\* The objects a task holds: its adapter and its HTTP client, 0 for none.
NoRefs == [adapter |-> 0, http |-> 0]

\* send_single up to its first suspension (lines 398-406 and, for a client
\* that is not configured, on to the return): a KeyError from a key
\* get_client reads; else the client, and either the POST being issued or the
\* result built from the adapter's "not configured" failure.
SendSingleStart(model, p, tmo) ==
    LET missing == FirstMissing(model, ClientKeys) IN
    IF missing # None
    THEN [client |-> NoClient, post |-> FALSE,
          result |-> TaskException(KeyErrorStr(missing))]
    ELSE LET c == MakeClient(model, tmo) IN
         IF is_configured(c)
         THEN [client |-> c, post |-> TRUE, result |-> NoResult]
         ELSE [client |-> c, post |-> FALSE,
               result |-> BuildOutcome(model, p, Failure(NotConfiguredMsg))]

\* The objects send_single creates on the way s: the adapter by get_client
\* (line 379), the HTTP client by "async with httpx.AsyncClient(...)" (line
\* 94) when the POST is issued.
SendSingleObjects(h, s) ==
    IF s.client = NoClient THEN [heap |-> h, refs |-> NoRefs]
    ELSE LET a == Alloc(h, s.client.cls) IN
         IF ~s.post
         THEN [heap |-> a.heap, refs |-> [adapter |-> a.ref, http |-> 0]]
         ELSE LET c == Alloc(a.heap, "httpx.AsyncClient")
              IN  [heap |-> c.heap,
                   refs |-> [adapter |-> a.ref, http |-> c.ref]]

\* send_single from the completion of the POST to its end (lines 406-416).
SendSingleFinish(model, p, c, reply) ==
    BuildOutcome(model, p, AdapterReply(c, reply))

\* Mutant of GatherDone: the await ends with the first task that is done.
GatherFirstDone(states) ==
    states = <<>> \/ \E i \in DOMAIN states : states[i] = "done"

\* The await of line 419: gather's future is done when every task is done.
GatherDone(states) == \A i \in DOMAIN states : states[i] = "done"

(***************************************************************************)
(* src/models.py: ResultsStore; src/main.py: RequestWorker and the slots   *)
(* of MainWindow it signals.                                               *)
(***************************************************************************)
\* @dataclass TempResult.
TempResult(id, name, text, response, tokens, selected, success, error) ==
    [model_id |-> id, model_name |-> name, prompt_text |-> text,
     response |-> response, tokens |-> tokens, selected |-> selected,
     success |-> success, error |-> error]

\* ResultsStore.__init__.
ResultsStore == [results |-> <<>>, current_prompt |-> ""]

\* Mutant of set_results: only the successful results are kept.
set_results_successful(s, p, rs) ==
    LET kept == SelectSeq(rs, LAMBDA r : r.success)
    IN  [results |->
            [k \in 1..Len(kept) |->
                TempResult(kept[k].model_id, kept[k].model_name,
                           kept[k].prompt_text, kept[k].response,
                           kept[k].tokens, FALSE, kept[k].success,
                           kept[k].error)],
         current_prompt |-> p]

\* Mutant of set_results: the results are appended to the stored ones.
set_results_appending(s, p, rs) ==
    [results |->
        s.results \o
        [k \in 1..Len(rs) |->
            TempResult(rs[k].model_id, rs[k].model_name, rs[k].prompt_text,
                       rs[k].response, rs[k].tokens, FALSE, rs[k].success,
                       rs[k].error)],
     current_prompt |-> p]

\* ResultsStore.set_results: clear(), then one TempResult per result, in
\* order (every dict send_to_models returns has all the keys read).
set_results(s, p, rs) ==
    [results |->
        [k \in 1..Len(rs) |->
            TempResult(rs[k].model_id, rs[k].model_name, rs[k].prompt_text,
                       rs[k].response, rs[k].tokens, FALSE, rs[k].success,
                       rs[k].error)],
     current_prompt |-> p]

\* str(tokens) of an int or of None.
TokensText(tokens) ==
    IF ToString(tokens) = ToString(None) THEN "None" ELSE ToString(tokens)

\* One row of ResultsTab.update_results: the checkbox, the model name (red
\* for a failed result), the response cut at 1000 characters with its
\* tooltip, the tokens.
Row(r) ==
    [checked |-> r.selected, model |-> r.model_name, red |-> ~r.success,
     response |-> IF Len(r.response) > 1000
                  THEN Prefix(r.response, 1000) \o "..."
                  ELSE r.response,
     tooltip |-> r.response, tokens |-> TokensText(r.tokens)]

\* ResultsTab.update_results: the table is emptied and gets one row per
\* stored result; len(result.response) raises TypeError for a response that
\* is None, which ends the loop at that row.
update_results(s) ==
    LET bad(k) == s.results[k].response = None
        n == IF \E k \in 1..Len(s.results) : bad(k)
             THEN (CHOOSE k \in 1..Len(s.results) :
                      bad(k) /\ \A j \in 1..(k - 1) : ~bad(j)) - 1
             ELSE Len(s.results)
    IN  [raised |-> IF n < Len(s.results)
                    THEN "object of type 'NoneType' has no len()" ELSE None,
         rows |-> [k \in 1..n |-> Row(s.results[k])]]

(***************************************************************************)
(* src/db.py: the table models; src/models.py: ModelManager.               *)
(***************************************************************************)
\* One row of the table models; is_active is the INTEGER SQLite stores.
ModelRow(id, name, provider, api_url, api_key_env, model_id, is_active) ==
    [id |-> id, name |-> name, provider |-> provider, api_url |-> api_url,
     api_key_env |-> api_key_env, model_id |-> model_id,
     is_active |-> is_active]

\* The table after _create_tables on a new file: no row, and no id used.
NoModels == [rows |-> <<>>, seq |-> 0]

\* The names the model uses, in the order of SQLite's BINARY collation.
NameOrder ==
    << "Claude", "DeepSeek R1 (free)", "Dolphin Mistral 24B (free)", "GPT",
       "Google Gemma 3n E4B (free)", "Kimi K2 (free)",
       "Mistral Devstral (free)", "Nvidia Nemotron 9B (free)",
       "Qwen3 4B (free)", "Qwen3 Coder (free)" >>

Rank(name) == CHOOSE k \in 1..Len(NameOrder) : NameOrder[k] = name

\* ORDER BY name; rows of one name come in the order of their ids.
OrderByName(rows) ==
    LET R == 1..Len(rows)
        Ahead(rank) ==
           [i \in R |->
               Cardinality({j \in R :
                              \/ rank[j] < rank[i]
                              \/ rank[j] = rank[i] /\ rows[j].id < rows[i].id})]
        ranks == {[i \in R |-> Rank(rows[i].name)]}
        aheads == {Ahead(rank) : rank \in ranks}
    IN  CHOOSE sorted \in
           {[k \in R |-> rows[CHOOSE i \in R : ahead[i] = k - 1]] :
               ahead \in aheads} : TRUE

\* Database.add_model: INSERT with the next id of the AUTOINCREMENT
\* sequence and int(is_active); returns cursor.lastrowid.
add_model(t, name, provider, api_url, api_key_env, model_id, is_active) ==
    [rows |-> Append(t.rows,
                     ModelRow(t.seq + 1, name, provider, api_url,
                              api_key_env, model_id,
                              IF is_active THEN 1 ELSE 0)),
     seq |-> t.seq + 1]

\* dict(row) of a row of models, as send_to_models reads it.
RowDict(row) ==
    [id |-> row.id, name |-> row.name, provider |-> row.provider,
     api_url |-> row.api_url, api_key_env |-> row.api_key_env,
     model_id |-> row.model_id, is_active |-> row.is_active,
     keys |-> Fields \cup {"is_active", "created_at"}]

\* Mutant of get_models: the filter on is_active is left out.
get_models_all(t, active_only) ==
    LET sorted == OrderByName(t.rows)
    IN  [k \in 1..Len(sorted) |-> RowDict(sorted[k])]

\* Database.get_models: SELECT * FROM models [WHERE is_active = 1]
\* ORDER BY name.
get_models(t, active_only) ==
    LET chosen == IF active_only
                  THEN SelectSeq(t.rows, LAMBDA r : r.is_active = 1)
                  ELSE t.rows
        sorted == OrderByName(chosen)
    IN  [k \in 1..Len(sorted) |-> RowDict(sorted[k])]

\* ModelManager.get_active_models / get_all_models.
get_active_models(t) == get_models(t, TRUE)
get_all_models(t) == get_models(t, FALSE)

\* Database.update_model with the keyword arguments name and is_active
\* (None: keep the column); a row that does not exist is left alone.
update_model(t, id, name, is_active) ==
    [t EXCEPT !.rows =
        [k \in 1..Len(t.rows) |->
            IF t.rows[k].id # id THEN t.rows[k]
            ELSE [t.rows[k] EXCEPT
                    !.name = IF name # None THEN name ELSE @,
                    !.is_active = IF is_active = "True" THEN 1
                                  ELSE IF is_active = "False" THEN 0
                                  ELSE @]]]

\* Database.toggle_model_active: UPDATE models SET is_active = NOT is_active
\* WHERE id = ?.
toggle_model_active(t, id) ==
    [t EXCEPT !.rows =
        [k \in 1..Len(t.rows) |->
            IF t.rows[k].id # id THEN t.rows[k]
            ELSE [t.rows[k] EXCEPT
                    !.is_active = IF @ = 0 THEN 1 ELSE 0]]]

\* Database.delete_model: DELETE FROM models WHERE id = ?; the sequence
\* keeps the ids already used.
delete_model(t, id) ==
    [t EXCEPT !.rows = SelectSeq(t.rows, LAMBDA r : r.id # id)]

\* ModelManager.add_default_models: the list default_models.
default_models ==
    LET free(name, model_id) ==
           [name |-> name, provider |-> "openrouter",
            api_url |-> "https://openrouter.ai/api/v1",
            api_key_env |-> "OPENROUTER_API_KEY", model_id |-> model_id]
    IN  << free("DeepSeek R1 (free)", "deepseek/deepseek-r1-0528:free"),
           free("Qwen3 4B (free)", "qwen/qwen3-4b:free"),
           free("Qwen3 Coder (free)", "qwen/qwen3-coder:free"),
           free("Google Gemma 3n E4B (free)", "google/gemma-3n-e4b-it:free"),
           free("Mistral Devstral (free)", "mistralai/devstral-2512:free"),
           free("Kimi K2 (free)", "moonshotai/kimi-k2:free"),
           free("Nvidia Nemotron 9B (free)",
                "nvidia/nemotron-nano-9b-v2:free"),
           free("Dolphin Mistral 24B (free)",
                "cognitivecomputations/dolphin-mistral-24b-venice-edition:free")
        >>

\* The loop of add_default_models over the names read before it: every
\* default model whose name is not among them is added by add_model with
\* is_active=False, in the order of the list, each with the next id.
AddMissing(t, existing_models) ==
    LET missing == SelectSeq(default_models,
                             LAMBDA m : m.name \notin existing_models)
    IN  [rows |-> t.rows \o
                  [k \in 1..Len(missing) |->
                      ModelRow(t.seq + k, missing[k].name,
                               missing[k].provider, missing[k].api_url,
                               missing[k].api_key_env, missing[k].model_id,
                               0)],
         seq |-> t.seq + Len(missing)]

\* Mutant of add_default_models: the names in the table are not looked at.
add_default_models_always(t) == AddMissing(t, {})

\* ModelManager.add_default_models.
add_default_models(t) ==
    LET all == get_all_models(t)
        existing_models == {all[k].name : k \in 1..Len(all)}
    IN  AddMissing(t, existing_models)

(***************************************************************************)
(* src/main.py: MainWindow, its request tab and its worker threads.        *)
(***************************************************************************)
\* str.strip() for the blank the model's prompts are typed with.
RECURSIVE Strip(_)
Strip(s) ==
    IF s = "" THEN s
    ELSE IF SubSeq(s, 1, 1) = " " THEN Strip(SubSeq(s, 2, Len(s)))
    ELSE IF SubSeq(s, Len(s), Len(s)) = " "
         THEN Strip(SubSeq(s, 1, Len(s) - 1))
    ELSE s

\* int(self.db.get_setting("request_timeout", "60")) in send_requests and
\* int(self.db.get_setting("request_timeout", "90")) in improve_prompt, the
\* table settings having no row request_timeout.
SendTimeout == 60
ImproveTimeout == 90

\* MainWindow.__init__ and RequestTab.setup_ui: both buttons enabled, the
\* progress bar hidden, the editor empty, no worker yet (0 stands for None).
MainWindow ==
    [send_btn |-> TRUE, improve_btn |-> TRUE, progress |-> FALSE,
     prompt_edit |-> "", worker |-> 0, improve_worker |-> 0,
     closed |-> FALSE]

\* What a worker hands to its signal: the results of finished(list), the
\* ImprovedPrompt of finished(object), the text of error(str).
NoPayload == [results |-> <<>>, success |-> FALSE, improved |-> "",
              text |-> ""]

\* RequestWorker.__init__.
RequestWorker(p, ms, tmo) ==
    [kind |-> "request", prompt |-> p, models |-> ms, timeout |-> tmo,
     state |-> "running", signal |-> None, payload |-> NoPayload]

\* ImproveWorker.__init__.
ImproveWorker(p, tmo) ==
    [kind |-> "improve", prompt |-> p, models |-> <<>>, timeout |-> tmo,
     state |-> "started", signal |-> None, payload |-> NoPayload]

\* Database._connect: one connection for every thread
\* (check_same_thread=False); inside: the threads in a call on it.
Connected == [open |-> TRUE, inside |-> {}]

\* HistoryTab.__init__.
HistoryTab ==
    [current_page |-> 1, page_size |-> 20, total_rows |-> 0,
     results_cache |-> <<>>, search_edit |-> "", loaded |-> ""]

\* The table results: how many rows hold the text "x" the model searches
\* for, and how many do not.
NoResults == [x |-> 0, other |-> 0]

\* The application as MainWindow() leaves it on a new database.
Constructed ==
    /\ dbModels = NoModels
    /\ dbResults = NoResults
    /\ conn = Connected
    /\ win = MainWindow
    /\ threads = <<>>
    /\ events = <<>>
    /\ hist = HistoryTab

(***************************************************************************)
(* Inputs.                                                                 *)
(***************************************************************************)
Prompts == {"Say hi"}
TimeoutValues == {10}

\* The models a list is drawn from: adapters whose key is set (the two
\* families of adapter code), a provider the registry does not know and every
\* adapter, each with its key unset or empty, and dicts that lack one of the
\* keys send_single reads.  Ids are given by position.
Pool ==
    { ModelDict(0, "GPT", "openai", "KEY_SET", {}),
      ModelDict(0, "Claude", "anthropic", "KEY_SET", {}),
      ModelDict(0, "Mistral", "mistral", "KEY_EMPTY", {}),
      ModelDict(0, "GPT-nokey", "openai", "KEY_UNSET", {}),
      ModelDict(0, "Claude-nokey", "anthropic", "KEY_EMPTY", {}),
      ModelDict(0, "Gemini-nokey", "google", "KEY_UNSET", {}),
      ModelDict(0, "Router-nokey", "openrouter", "KEY_EMPTY", {}),
      ModelDict(0, "NoProvider", "openai", "KEY_SET", {"provider"}),
      ModelDict(0, "NoUrl", "openai", "KEY_SET", {"api_url"}),
      ModelDict(0, "NoKeyEnv", "openai", "KEY_SET", {"api_key_env"}),
      ModelDict(0, "NoModelId", "openai", "KEY_SET", {"model_id"}),
      ModelDict(0, "NoId", "openai", "KEY_UNSET", {"id"}),
      ModelDict(0, "NoName", "anthropic", "KEY_EMPTY", {"name"}) }

\* What a provider can answer to one POST.
Replies ==
    { HttpResponse(200, BodyOk), HttpResponse(500, BodyBoom),
      TransportError("All connection attempts failed") }

RECURSIVE Repeat(_, _)
\* s * n.
Repeat(s, n) ==
    IF n = 0 THEN ""
    ELSE IF n % 2 = 0 THEN LET half == Repeat(s, n \div 2) IN half \o half
    ELSE s \o Repeat(s, n - 1)

\* The bodies a provider can send that answer with the text "hi": the
\* usage reported, or not there.
WellFormedBodies ==
    { AnswerBody(JStr("hi"), u) :
         u \in {"reported", "absent", "empty", "partial"} }

\* Bodies with a key missing on the response-text or usage path, or a null
\* there.
MalformedBodies ==
    { AnswerBody(JNull, "reported"),
      AnswerBody(JStr("hi"), "null"),
      AnswerBody(JStr("hi"), "nullfield"),
      Body(JObj(<<>>)),
      Body(JObj(<<Member("choices", JList(<<>>)),
                  Member("content", JList(<<>>)),
                  Member("candidates", JList(<<>>))>>)) }

\* Bodies of error responses: error.message, no JSON at all (short and
\* longer than 200 characters), JSON without an error key (longer than 200
\* characters), an error that is a string, an error object without message.
ErrorBodies ==
    { BodyBoom,
      RawBody("<html>502 Bad Gateway</html>"),
      RawBody("<html>" \o Repeat("x", 300) \o "</html>"),
      Body(JObj(<<Member("detail", JStr(Repeat("x", 300)))>>)),
      Body(JObj(<<Member("error", JStr("boom"))>>)),
      Body(JObj(<<Member("error", JObj(<<Member("code", JInt(5))>>))>>)) }

AdapterStatuses == {200, 201, 500}

\* What a provider can answer to the one POST of an adapter.
AdapterReplies ==
    { HttpResponse(status, body) :
         status \in AdapterStatuses,
         body \in WellFormedBodies \cup MalformedBodies \cup ErrorBodies }
    \cup { TransportError("All connection attempts failed"),
           TransportError("") }

\* One model per adapter class with its key set, a provider the registry
\* does not know, a model without key, a dict without provider and one
\* without id.
AdapterPool ==
    { ModelDict(0, "GPT", "openai", "KEY_SET", {}),
      ModelDict(0, "Claude", "anthropic", "KEY_SET", {}),
      ModelDict(0, "Gemini", "google", "KEY_SET", {}),
      ModelDict(0, "Router", "openrouter", "KEY_SET", {}),
      ModelDict(0, "DeepSeek", "deepseek", "KEY_SET", {}),
      ModelDict(0, "GPT-nokey", "openai", "KEY_UNSET", {}),
      ModelDict(0, "NoProvider", "openai", "KEY_SET", {"provider"}),
      ModelDict(0, "NoId", "openai", "KEY_UNSET", {"id"}) }

N == Len(models)

\* The state at the call of send_to_models_sync(p, the models of kinds with
\* the ids given by position, tmo): nothing created yet.
Called(p, kinds, tmo) ==
    /\ prompt = p
    /\ timeout = tmo
    /\ models = [i \in 1..Len(kinds) |-> [kinds[i] EXCEPT !.id = 100 + i]]
    /\ pc = "called"
    /\ ready = <<>>
    /\ st = [i \in 1..Len(kinds) |-> "pending"]
    /\ client = [i \in 1..Len(kinds) |-> NoClient]
    /\ io = [i \in 1..Len(kinds) |-> NoReply]
    /\ task = [i \in 1..Len(kinds) |-> NoResult]
    /\ posts = [i \in 1..Len(kinds) |-> 0]
    /\ doneOrder = <<>>
    /\ results = <<>>
    /\ escaped = None
    /\ heap = <<>>
    /\ refs = [i \in 1..Len(kinds) |-> NoRefs]
    /\ history = <<>>
    /\ gui = "waiting"
    /\ store = ResultsStore
    /\ table = <<>>
    /\ Constructed

Init ==
    \E p \in Prompts : \E tmo \in TimeoutValues :
       \E n \in 0..MaxModels : \E kinds \in [1..n -> Pool] :
          Called(p, kinds, tmo)

(***************************************************************************)
(* Actions.                                                                *)
(***************************************************************************)
\* send_to_models_sync -> asyncio.run -> send_to_models up to the await of
\* line 419: one coroutine per model, each wrapped in a task by gather and
\* scheduled on the loop in list order.
CreateTasks ==
    /\ pc = "called"
    /\ pc' = "gather"
    /\ ready' = [i \in 1..N |-> i]
    /\ UNCHANGED <<prompt, models, timeout, st, client, io, task, posts,
                   doneOrder, results, escaped>>
    /\ UNCHANGED <<heap, refs, history, gui, store, table, app>>

\* Mutant of StartTask: the calls are awaited one after the other, a task
\* starts only when every task before it is done.
StartTaskSequential(i) ==
    /\ i \in 1..N
    /\ pc = "gather"
    /\ ready # <<>> /\ Head(ready) = i
    /\ st[i] = "pending"
    /\ \A j \in 1..(i - 1) : st[j] = "done"
    /\ ready' = Tail(ready)
    /\ LET s == SendSingleStart(models[i], prompt, timeout) IN
         /\ client' = [client EXCEPT ![i] = s.client]
         /\ posts' = [posts EXCEPT ![i] = @ + (IF s.post THEN 1 ELSE 0)]
         /\ st' = [st EXCEPT ![i] = IF s.post THEN "inflight" ELSE "done"]
         /\ task' = [task EXCEPT ![i] = s.result]
         /\ doneOrder' = IF s.post THEN doneOrder ELSE Append(doneOrder, i)
         /\ LET o == SendSingleObjects(heap, s) IN
              /\ heap' = o.heap
              /\ refs' = [refs EXCEPT ![i] = o.refs]
    /\ UNCHANGED <<prompt, models, timeout, pc, io, results, escaped>>
    /\ UNCHANGED <<history, gui, store, table, app>>

\* The loop runs the first step of the task at the head of the queue.
StartTask(i) ==
    /\ i \in 1..N
    /\ pc = "gather"
    /\ ready # <<>> /\ Head(ready) = i
    /\ st[i] = "pending"
    /\ ready' = Tail(ready)
    /\ LET s == SendSingleStart(models[i], prompt, timeout) IN
         /\ client' = [client EXCEPT ![i] = s.client]
         /\ posts' = [posts EXCEPT ![i] = @ + (IF s.post THEN 1 ELSE 0)]
         /\ st' = [st EXCEPT ![i] = IF s.post THEN "inflight" ELSE "done"]
         /\ task' = [task EXCEPT ![i] = s.result]
         /\ doneOrder' = IF s.post THEN doneOrder ELSE Append(doneOrder, i)
         /\ LET o == SendSingleObjects(heap, s) IN
              /\ heap' = o.heap
              /\ refs' = [refs EXCEPT ![i] = o.refs]
    /\ UNCHANGED <<prompt, models, timeout, pc, io, results, escaped>>
    /\ UNCHANGED <<history, gui, store, table, app>>

\* Mutant of Reply: a failed attempt is followed by a second POST.
ReplyRetry(i, r) ==
    /\ i \in 1..N
    /\ pc = "gather"
    /\ ready = <<>>
    /\ st[i] = "inflight"
    /\ IF ~AdapterReply(client[i], r).success /\ posts[i] < 2
       THEN /\ posts' = [posts EXCEPT ![i] = @ + 1]
            /\ UNCHANGED <<io, st, task, doneOrder>>
       ELSE /\ io' = [io EXCEPT ![i] = r]
            /\ st' = [st EXCEPT ![i] = "done"]
            /\ task' = [task EXCEPT ![i] =
                           SendSingleFinish(models[i], prompt, client[i], r)]
            /\ doneOrder' = Append(doneOrder, i)
            /\ UNCHANGED posts
    /\ UNCHANGED <<prompt, models, timeout, pc, ready, client, results,
                   escaped>>
    /\ UNCHANGED <<heap, refs, history, gui, store, table, app>>

\* The loop polls the transport only when the handles that were ready have
\* run.  The POST of call i completes with what the provider answered (or
\* with a connection failure) and the task runs on to its end.
Reply(i, r) ==
    /\ i \in 1..N
    /\ pc = "gather"
    /\ ready = <<>>
    /\ st[i] = "inflight"
    /\ io' = [io EXCEPT ![i] = r]
    /\ st' = [st EXCEPT ![i] = "done"]
    /\ task' = [task EXCEPT ![i] =
                   SendSingleFinish(models[i], prompt, client[i], r)]
    /\ doneOrder' = Append(doneOrder, i)
    /\ UNCHANGED <<prompt, models, timeout, pc, ready, client, posts,
                   results, escaped>>
    /\ UNCHANGED <<heap, refs, history, gui, store, table, app>>

\* Mutant of TimeoutElapses: the timeout bounds the batch, the first call to
\* time out ends every call still in flight.
TimeoutCancelsSiblings(i) ==
    /\ i \in 1..N
    /\ pc = "gather"
    /\ ready = <<>>
    /\ st[i] = "inflight"
    /\ io' = [io EXCEPT ![i] = TimeoutException]
    /\ st' = [j \in 1..N |-> IF st[j] = "inflight" THEN "done" ELSE st[j]]
    /\ task' = [j \in 1..N |->
                   IF st[j] = "inflight"
                   THEN SendSingleFinish(models[j], prompt, client[j],
                                         TimeoutException)
                   ELSE task[j]]
    /\ doneOrder' = doneOrder \o
                      SelectSeq([j \in 1..N |-> j],
                                LAMBDA j : st[j] = "inflight")
    /\ UNCHANGED <<prompt, models, timeout, pc, ready, client, posts,
                   results, escaped>>
    /\ UNCHANGED <<heap, refs, history, gui, store, table, app>>

\* Mutant of TimeoutElapses: the POST has no timeout.
NoTimeout(i) == FALSE /\ UNCHANGED vars

\* No answer within client.timeout: httpx raises TimeoutException into the
\* POST of call i (httpx.AsyncClient(timeout=self.timeout)), and the task
\* runs on to its end.
TimeoutElapses(i) ==
    /\ i \in 1..N
    /\ pc = "gather"
    /\ ready = <<>>
    /\ st[i] = "inflight"
    /\ io' = [io EXCEPT ![i] = TimeoutException]
    /\ st' = [st EXCEPT ![i] = "done"]
    /\ task' = [task EXCEPT ![i] =
                   SendSingleFinish(models[i], prompt, client[i],
                                    TimeoutException)]
    /\ doneOrder' = Append(doneOrder, i)
    /\ UNCHANGED <<prompt, models, timeout, pc, ready, client, posts,
                   results, escaped>>
    /\ UNCHANGED <<heap, refs, history, gui, store, table, app>>

\* Every task is done: the main coroutine resumes from the await of line 419,
\* runs the loop of lines 422-437 and send_to_models returns or raises;
\* asyncio.run hands either to the caller of send_to_models_sync.
GatherReturns ==
    /\ pc = "gather"
    /\ ready = <<>>
    /\ GatherDone(st)
    /\ LET out == ProcessResults(Gather(task, doneOrder), models, prompt) IN
         /\ results' = out.value
         /\ escaped' = out.raised
    /\ pc' = "ended"
    /\ UNCHANGED <<prompt, models, timeout, ready, st, client, io, task,
                   posts, doneOrder>>
    /\ UNCHANGED <<heap, refs, history, gui, store, table, app>>

\* RequestWorker.run emits finished(results) when send_to_models_sync
\* returned; the slot MainWindow.on_requests_finished stores the results
\* (results_store.set_results(self.worker.prompt, results)) and fills the
\* table (results_tab.update_results()).
OnRequestsFinished ==
    /\ pc = "ended"
    /\ escaped = None
    /\ gui = "waiting"
    /\ LET s == set_results(store, prompt, results)
           shown == update_results(s)
       IN  /\ store' = s
           /\ table' = shown.rows
           /\ gui' = IF shown.raised = None THEN "shown" ELSE "slot raised"
    /\ UNCHANGED <<prompt, models, timeout, pc, ready, st, client, io, task,
                   posts, doneOrder, results, escaped, heap, refs, history,
                   app>>

\* RequestWorker.run emits error(str(e)) when send_to_models_sync raised;
\* the slot MainWindow.on_requests_error reports it and stores nothing.
OnRequestsError ==
    /\ pc = "ended"
    /\ escaped # None
    /\ gui = "waiting"
    /\ gui' = "error"
    /\ UNCHANGED <<prompt, models, timeout, pc, ready, st, client, io, task,
                   posts, doneOrder, results, escaped, heap, refs, history,
                   store, table, app>>

Next ==
    \/ CreateTasks
    \/ \E i \in 1..N : StartTask(i)
    \/ \E i \in 1..N : \E r \in Replies : Reply(i, r)
    \/ \E i \in 1..N : TimeoutElapses(i)
    \/ GatherReturns

Spec == Init /\ [][Next]_vars

\* The steps that need no provider: the event loop runs the handles that are
\* ready, and httpx ends a POST that got no answer within client.timeout.
LoopStep ==
    \/ CreateTasks
    \/ \E i \in 1..N : StartTask(i)
    \/ \E i \in 1..N : TimeoutElapses(i)
    \/ GatherReturns

\* The models of the lists termination is checked for: one of each way a
\* call can go (a POST through either family of adapter code, no key, a
\* KeyError before the client exists, a KeyError when the outcome is built).
LivePool ==
    { m \in Pool : m.name \in {"GPT", "Claude", "GPT-nokey", "NoProvider",
                               "NoId"} }

InitLive ==
    \E p \in Prompts : \E tmo \in TimeoutValues :
       \E n \in 0..MaxModels : \E kinds \in [1..n -> LivePool] :
          Called(p, kinds, tmo)

\* The scheduling the code relies on: the loop and the timers keep running.
\* Nothing is assumed of the providers: none of them has to answer.
FairSpec == InitLive /\ [][Next]_vars /\ WF_vars(LoopStep)

\* The call made by RequestWorker.run, and the slot of the window that
\* handles the signal the worker emits when the call ended.
NextWindow ==
    \/ Next
    \/ OnRequestsFinished
    \/ OnRequestsError

WindowSpec == InitLive /\ [][NextWindow]_vars

\* The dispatch of one model, its provider answering with any status and
\* body: the adapters as functions of the transport's reply.
InitAdapter ==
    \E p \in Prompts : \E tmo \in TimeoutValues : \E kind \in AdapterPool :
       Called(p, <<kind>>, tmo)

NextAdapter ==
    \/ CreateTasks
    \/ \E i \in 1..N : StartTask(i)
    \/ \E i \in 1..N : \E r \in AdapterReplies : Reply(i, r)
    \/ \E i \in 1..N : TimeoutElapses(i)
    \/ GatherReturns
    \/ OnRequestsFinished
    \/ OnRequestsError

AdapterSpec == InitAdapter /\ [][NextAdapter]_vars

\* send_to_models_sync is called a second time with the same prompt, model
\* list and timeout, after the first call ended: asyncio.run starts a new
\* loop, and everything send_to_models creates is created anew.  What the
\* first call was answered and what it returned is kept for comparison.
CallAgain ==
    /\ pc = "ended"
    /\ history = <<>>
    /\ history' = <<[io |-> io, results |-> results, escaped |-> escaped]>>
    /\ pc' = "called"
    /\ ready' = <<>>
    /\ st' = [i \in 1..N |-> "pending"]
    /\ client' = [i \in 1..N |-> NoClient]
    /\ io' = [i \in 1..N |-> NoReply]
    /\ task' = [i \in 1..N |-> NoResult]
    /\ posts' = [i \in 1..N |-> 0]
    /\ doneOrder' = <<>>
    /\ results' = <<>>
    /\ escaped' = None
    /\ heap' = <<>>
    /\ refs' = [i \in 1..N |-> NoRefs]
    /\ UNCHANGED <<prompt, models, timeout, gui, store, table, app>>

\* A deterministic transport: in the second call the POST of model i gets
\* what the POST of model i got in the first.
Scripted(i, r) == IF history = <<>> THEN TRUE ELSE history[1].io[i] = r

NextTwice ==
    \/ CreateTasks
    \/ \E i \in 1..N : StartTask(i)
    \/ \E i \in 1..N : \E r \in Replies : Scripted(i, r) /\ Reply(i, r)
    \/ \E i \in 1..N : Scripted(i, TimeoutException) /\ TimeoutElapses(i)
    \/ GatherReturns
    \/ CallAgain

\* Two calls in a row with the same arguments, the transport deterministic
\* and the environment unchanged.
TwiceSpec == InitLive /\ [][NextTwice]_vars



(***************************************************************************)
(* Vocabulary of the properties.                                           *)
(***************************************************************************)
Ended == pc = "ended"
Returned == Ended /\ escaped = None

\* The dict has the keys an outcome copies its model identity from.
HasIdentity(m) == {"id", "name"} \subseteq m.keys
\* A client can be built for the dict, and its credential is / is not there.
HasClientKeys(m) == FirstMissing(m, ClientKeys) = None
Configured(m) == HasClientKeys(m) /\ Getenv(m.api_key_env, "") # ""
Unconfigured(m) == HasClientKeys(m) /\ Getenv(m.api_key_env, "") = ""

OkReply == HttpResponse(200, BodyOk)

\* The outcome of dispatching the one model m alone, its provider behaving as
\* in reply.
Solo(m, p, tmo, reply) ==
    LET s == SendSingleStart(m, p, tmo)
        t == IF s.post THEN SendSingleFinish(m, p, s.client, reply)
             ELSE s.result
    IN  ProcessResults(<<t>>, <<m>>, p).value[1]

(***************************************************************************)
(* The window: what the user does on the tabs.                             *)
(***************************************************************************)
\* No call of send_to_models is modelled step by step.
NoCall ==
    /\ prompt = ""
    /\ timeout = DefaultTimeout
    /\ models = <<>>
    /\ pc = "idle"
    /\ ready = <<>>
    /\ st = <<>>
    /\ client = <<>>
    /\ io = <<>>
    /\ task = <<>>
    /\ posts = <<>>
    /\ doneOrder = <<>>
    /\ results = <<>>
    /\ escaped = None
    /\ heap = <<>>
    /\ refs = <<>>
    /\ history = <<>>
    /\ gui = "waiting"
    /\ store = ResultsStore
    /\ table = <<>>

\* What the user types into the prompt editor, and into the form of the
\* models tab.
TypedPrompts == {"", " A", "B"}
FormNames == {"GPT", "Kimi K2 (free)"}

\* The GUI thread can run a handler: the window is open and the thread is
\* not inside a call of the database.
GuiIdle == ~win.closed /\ "gui" \notin conn.inside

\* The user edits the prompt.
EditPrompt(p) ==
    /\ GuiIdle
    /\ win.prompt_edit # p
    /\ win' = [win EXCEPT !.prompt_edit = p]
    /\ UNCHANGED <<call, store, dbModels, dbResults, conn, threads, events,
                   hist>>

\* A click on the send button: RequestTab.send_request returns after a
\* warning for an empty prompt or for no active model, else it emits
\* request_sent(prompt, models), whose slot MainWindow.send_requests shows
\* the progress bar, disables the button and starts a RequestWorker.
SendRequest ==
    /\ GuiIdle
    /\ win.send_btn
    /\ Len(threads) < MaxThreads
    /\ LET p == Strip(win.prompt_edit)
           ms == get_active_models(dbModels)
       IN  /\ p # ""
           /\ ms # <<>>
           /\ win' = [win EXCEPT !.progress = TRUE, !.send_btn = FALSE,
                                 !.worker = Len(threads) + 1]
           /\ threads' = Append(threads, RequestWorker(p, ms, SendTimeout))
    /\ UNCHANGED <<call, store, dbModels, dbResults, conn, events, hist>>

\* ModelsTab.add_model with the form filled in: the model is added active.
AddModel(name) ==
    /\ GuiIdle
    /\ dbModels.seq < MaxRowId
    /\ dbModels' = add_model(dbModels, name, "openai",
                             "https://api.example/v1", "KEY_SET", "m-1",
                             TRUE)
    /\ UNCHANGED <<call, store, dbResults, conn, win, threads, events, hist>>

\* ModelsTab.toggle_model: the checkbox of a row changed.
ToggleModel(id) ==
    /\ GuiIdle
    /\ \E k \in 1..Len(dbModels.rows) : dbModels.rows[k].id = id
    /\ dbModels' = toggle_model_active(dbModels, id)
    /\ UNCHANGED <<call, store, dbResults, conn, win, threads, events, hist>>

\* ModelManager.update_model(model_id, name=..., is_active=...).
UpdateModel(id, name, is_active) ==
    /\ GuiIdle
    /\ dbModels' = update_model(dbModels, id, name, is_active)
    /\ dbModels' # dbModels
    /\ UNCHANGED <<call, store, dbResults, conn, win, threads, events, hist>>

\* ModelsTab.delete_model, the question answered with Yes.
DeleteModel(id) ==
    /\ GuiIdle
    /\ \E k \in 1..Len(dbModels.rows) : dbModels.rows[k].id = id
    /\ dbModels' = delete_model(dbModels, id)
    /\ UNCHANGED <<call, store, dbResults, conn, win, threads, events, hist>>

\* ModelsTab.add_default_models.
AddDefaultModels ==
    /\ GuiIdle
    /\ add_default_models(dbModels).seq <= MaxRowId + Len(default_models)
    /\ dbModels' = add_default_models(dbModels)
    /\ UNCHANGED <<call, store, dbResults, conn, win, threads, events, hist>>

\* The models tab and the send button.
InitModels ==
    /\ NoCall
    /\ dbModels = NoModels
    /\ dbResults = NoResults
    /\ conn = Connected
    /\ win = [MainWindow EXCEPT !.prompt_edit = " A"]
    /\ threads = <<>>
    /\ events = <<>>
    /\ hist = HistoryTab

\* The rows the user of the models tab works on: the first and the last of
\* the table as load_models shows it.
Selectable ==
    LET shown == get_all_models(dbModels)
    IN  {shown[k].id : k \in {1, Len(shown)} \cap DOMAIN shown}

\* The user prepares the table of models, then sends the prompt.
NextModels ==
    \/ /\ threads = <<>>
       /\ \/ \E name \in FormNames : AddModel(name)
          \/ \E id \in Selectable : ToggleModel(id)
          \/ \E id \in Selectable :
                \E is_active \in {"True", "False"} :
                   UpdateModel(id, None, is_active)
          \/ \E id \in Selectable : DeleteModel(id)
          \/ AddDefaultModels
    \/ SendRequest

ModelsSpec == InitModels /\ [][NextModels]_vars

(***************************************************************************)
(* The session: the send and the improve buttons, the worker threads they  *)
(* start, the slots of their signals, and the closing of the window.       *)
(***************************************************************************)
\* What the adapters of a batch return from send_message.
SessionResponses == {APIResponse(TRUE, "hi", 7, None), Failure(TimeoutMsg)}

\* The improved prompt the dialog offers.
ImprovedText == "B"

\* str(e) of what leaves send_to_models_sync when asyncio.run cannot set up
\* its loop, of the read of a connection that is None, and of a read that
\* finds the connection closed under it.
LoopErrorMsg == "[Errno 24] Too many open files"
NoConnectionMsg == "'NoneType' object has no attribute 'cursor'"
ClosedMsg == "Cannot operate on a closed database."

\* self.finished.emit(...) / self.error.emit(...) at the end of run(): the
\* signal is queued for the GUI thread.
Emit(w, signal, payload) ==
    /\ threads' = [threads EXCEPT ![w].state = "emitted",
                                  ![w].signal = signal,
                                  ![w].payload = payload]
    /\ events' = Append(events, w)

\* RequestWorker.run: send_to_models_sync returned, finished(results).
RequestReturns(w, response) ==
    /\ w \in DOMAIN threads
    /\ threads[w].kind = "request"
    /\ threads[w].state = "running"
    /\ \E t \in {threads[w]} :
          Emit(w, "finished",
               [NoPayload EXCEPT
                  !.results = [k \in 1..Len(t.models) |->
                                  BuildOutcome(t.models[k], t.prompt,
                                               response).value]])
    /\ UNCHANGED <<call, store, dbModels, dbResults, conn, win, hist>>

\* RequestWorker.run: send_to_models_sync raised, error(str(e)).
RequestRaises(w) ==
    /\ w \in DOMAIN threads
    /\ threads[w].kind = "request"
    /\ threads[w].state = "running"
    /\ Emit(w, "error", [NoPayload EXCEPT !.text = LoopErrorMsg])
    /\ UNCHANGED <<call, store, dbModels, dbResults, conn, win, hist>>

\* ImproveWorker.run -> improve_sync -> improve_async: get_selected_model()
\* calls db.get_setting on the connection of the GUI thread; with the
\* connection gone (None after close) the call raises and run emits error.
ImproveReads(w) ==
    /\ w \in DOMAIN threads
    /\ threads[w].kind = "improve"
    /\ threads[w].state = "started"
    /\ IF conn.open
       THEN /\ conn' = [conn EXCEPT !.inside = @ \cup {"worker"}]
            /\ threads' = [threads EXCEPT ![w].state = "reading"]
            /\ UNCHANGED events
       ELSE /\ Emit(w, "error", [NoPayload EXCEPT !.text = NoConnectionMsg])
            /\ UNCHANGED conn
    /\ UNCHANGED <<call, store, dbModels, dbResults, win, hist>>

\* get_setting returns to the worker thread, which builds its client and
\* sends the request; a read the connection was closed under either got its
\* row before or raises.
ImproveReadReturns(w, raised) ==
    /\ w \in DOMAIN threads
    /\ threads[w].kind = "improve"
    /\ threads[w].state = "reading"
    /\ raised => ~conn.open
    /\ conn' = [conn EXCEPT !.inside = @ \ {"worker"}]
    /\ IF raised
       THEN Emit(w, "error", [NoPayload EXCEPT !.text = ClosedMsg])
       ELSE /\ threads' = [threads EXCEPT ![w].state = "requesting"]
            /\ UNCHANGED events
    /\ UNCHANGED <<call, store, dbModels, dbResults, win, hist>>

\* improve_sync returned an ImprovedPrompt, a success or a failure:
\* finished(result).
ImproveReturns(w, success) ==
    /\ w \in DOMAIN threads
    /\ threads[w].kind = "improve"
    /\ threads[w].state = "requesting"
    /\ Emit(w, "finished",
            [NoPayload EXCEPT !.success = success,
                              !.improved = IF success THEN ImprovedText
                                           ELSE ""])
    /\ UNCHANGED <<call, store, dbModels, dbResults, conn, win, hist>>

\* improve_sync raised (asyncio.run could not set up its loop): error(str(e)).
ImproveRaises(w) ==
    /\ w \in DOMAIN threads
    /\ threads[w].kind = "improve"
    /\ threads[w].state = "requesting"
    /\ Emit(w, "error", [NoPayload EXCEPT !.text = LoopErrorMsg])
    /\ UNCHANGED <<call, store, dbModels, dbResults, conn, win, hist>>

\* A click on the improve button: RequestTab.improve_prompt returns after a
\* warning for an empty prompt, else MainWindow.improve_prompt shows the
\* progress bar, disables both buttons and starts an ImproveWorker.
ImprovePrompt ==
    /\ GuiIdle
    /\ win.improve_btn
    /\ Len(threads) < MaxThreads
    /\ Strip(win.prompt_edit) # ""
    /\ win' = [win EXCEPT !.progress = TRUE, !.improve_btn = FALSE,
                          !.send_btn = FALSE,
                          !.improve_worker = Len(threads) + 1]
    /\ threads' = Append(threads,
                         ImproveWorker(Strip(win.prompt_edit), ImproveTimeout))
    /\ UNCHANGED <<call, store, dbModels, dbResults, conn, events, hist>>

\* The GUI thread takes the signal at the head of its queue and runs the
\* slot connected to it.
Delivered(w, kind, signal) ==
    /\ GuiIdle
    /\ events # <<>>
    /\ Head(events) = w
    /\ threads[w].kind = kind
    /\ threads[w].signal = signal
    /\ events' = Tail(events)
    /\ threads' = [threads EXCEPT ![w].state = "handled"]

\* Mutant of on_requests_finished: the slot leaves the button as it is.
on_requests_finished_keeps_button(w) ==
    /\ Delivered(w, "request", "finished")
    /\ win' = [win EXCEPT !.progress = FALSE]
    /\ UNCHANGED <<loop, store, table, dbModels, dbResults, conn, hist>>

\* MainWindow.on_requests_finished(results): the progress bar is hidden, the
\* send button enabled, the results stored under self.worker.prompt and
\* shown.
on_requests_finished(w) ==
    /\ Delivered(w, "request", "finished")
    /\ win' = [win EXCEPT !.progress = FALSE, !.send_btn = TRUE]
    /\ \E s \in {set_results(store, threads[win.worker].prompt,
                             threads[w].payload.results)} :
          /\ store' = s
          /\ table' = update_results(s).rows
    /\ UNCHANGED <<loop, dbModels, dbResults, conn, hist>>

\* MainWindow.on_requests_error(error).
on_requests_error(w) ==
    /\ Delivered(w, "request", "error")
    /\ win' = [win EXCEPT !.progress = FALSE, !.send_btn = TRUE]
    /\ UNCHANGED <<call, store, dbModels, dbResults, conn, hist>>

\* MainWindow.on_improve_finished(result): the progress bar is hidden and
\* both buttons enabled; for a success the dialog opens, in which the user
\* takes the improved prompt into the editor (set_prompt_text) or not.
on_improve_finished(w, taken) ==
    /\ Delivered(w, "improve", "finished")
    /\ taken => threads[w].payload.success
    /\ win' = [win EXCEPT !.progress = FALSE, !.improve_btn = TRUE,
                          !.send_btn = TRUE,
                          !.prompt_edit =
                              IF taken THEN threads[w].payload.improved
                              ELSE @]
    /\ UNCHANGED <<call, store, dbModels, dbResults, conn, hist>>

\* MainWindow.on_improve_error(error).
on_improve_error(w) ==
    /\ Delivered(w, "improve", "error")
    /\ win' = [win EXCEPT !.progress = FALSE, !.improve_btn = TRUE,
                          !.send_btn = TRUE]
    /\ UNCHANGED <<call, store, dbModels, dbResults, conn, hist>>

\* ModelsTab.toggle_model in the GUI thread, up to the return of
\* cursor.execute in toggle_model_active ...
ToggleModelExecute(id) ==
    /\ GuiIdle
    /\ \E k \in 1..Len(dbModels.rows) : dbModels.rows[k].id = id
    /\ dbModels' = toggle_model_active(dbModels, id)
    /\ conn' = [conn EXCEPT !.inside = @ \cup {"gui"}]
    /\ UNCHANGED <<call, store, dbResults, win, threads, events, hist>>

\* ... and from there to the return of connection.commit().
ToggleModelCommit ==
    /\ ~win.closed
    /\ "gui" \in conn.inside
    /\ conn' = [conn EXCEPT !.inside = @ \ {"gui"}]
    /\ UNCHANGED <<call, store, dbModels, dbResults, win, threads, events,
                   hist>>

\* MainWindow.closeEvent: self.db.close() closes the connection and sets it
\* to None; the window is gone, the threads are not waited for.
CloseEvent ==
    /\ GuiIdle
    /\ win' = [win EXCEPT !.closed = TRUE]
    /\ conn' = [conn EXCEPT !.open = FALSE]
    /\ UNCHANGED <<call, store, dbModels, dbResults, threads, events, hist>>

\* The window on a database that holds one active model.
InitSession ==
    /\ NoCall
    /\ dbModels = add_model(NoModels, "GPT", "openai",
                            "https://api.example/v1", "KEY_SET", "m-1", TRUE)
    /\ dbResults = NoResults
    /\ conn = Connected
    /\ win = MainWindow
    /\ threads = <<>>
    /\ events = <<>>
    /\ hist = HistoryTab

\* A step of a worker thread.
WorkerStep ==
    \E w \in 1..MaxThreads :
       \/ \E response \in SessionResponses : RequestReturns(w, response)
       \/ RequestRaises(w)
       \/ ImproveReads(w)
       \/ \E raised \in BOOLEAN : ImproveReadReturns(w, raised)
       \/ \E success \in BOOLEAN : ImproveReturns(w, success)
       \/ ImproveRaises(w)

\* The GUI thread runs the slot of the next queued signal.
SlotStep ==
    \E w \in 1..MaxThreads :
       \/ on_requests_finished(w)
       \/ on_requests_error(w)
       \/ \E taken \in BOOLEAN : on_improve_finished(w, taken)
       \/ on_improve_error(w)

NextSession ==
    \/ \E p \in TypedPrompts : EditPrompt(p)
    \/ SendRequest
    \/ ImprovePrompt
    \/ \E id \in 1..dbModels.seq : ToggleModelExecute(id)
    \/ ToggleModelCommit
    \/ CloseEvent
    \/ WorkerStep
    \/ SlotStep

SessionSpec == InitSession /\ [][NextSession]_vars

\* The same session with the prompt typed before and the models tab left
\* alone; the threads run, and the event loop of the GUI thread gets to
\* every signal queued for it.
InitFairSession ==
    /\ NoCall
    /\ dbModels = add_model(NoModels, "GPT", "openai",
                            "https://api.example/v1", "KEY_SET", "m-1", TRUE)
    /\ dbResults = NoResults
    /\ conn = Connected
    /\ win = [MainWindow EXCEPT !.prompt_edit = "A"]
    /\ threads = <<>>
    /\ events = <<>>
    /\ hist = HistoryTab

NextFairSession ==
    \/ SendRequest
    \/ ImprovePrompt
    \/ CloseEvent
    \/ WorkerStep
    \/ SlotStep

FairSessionSpec ==
    /\ InitFairSession
    /\ [][NextFairSession]_vars
    /\ WF_vars(WorkerStep)
    /\ SF_vars(SlotStep)

(***************************************************************************)
(* src/main.py: HistoryTab and its paging; src/db.py: get_results.         *)
(***************************************************************************)
\* The rows of results a search matches: all of them for no search text,
\* those holding "x" for the text "x".
Matching(db, search) ==
    IF search = "" THEN db.x + db.other
    ELSE IF search = "x" THEN db.x
    ELSE 0

\* Database.get_results(search, limit, offset): the matching rows, newest
\* first, from place offset + 1 on and at most limit of them; a row is named
\* by its place in that order.
get_results(db, search, limit, offset) ==
    LET n == Matching(db, search)
        left == IF n > offset THEN n - offset ELSE 0
        count == IF left < limit THEN left ELSE limit
    IN  [k \in 1..count |-> offset + k]

\* limit=10000 of the query that counts the rows.
CountLimit == 10000

\* max(1, (total_rows + page_size - 1) // page_size).
TotalPages(total_rows, page_size) ==
    LET pages == (total_rows + page_size - 1) \div page_size
    IN  IF pages > 1 THEN pages ELSE 1

\* Mutant of load_history: the page is not brought back into the range.
load_history_unclamped(h, db) ==
    LET search == Strip(h.search_edit)
        total_rows == Len(get_results(db, search, CountLimit, 0))
        offset == (h.current_page - 1) * h.page_size
    IN  [h EXCEPT !.total_rows = total_rows,
                  !.results_cache =
                      get_results(db, search, h.page_size, offset),
                  !.loaded = search]

\* HistoryTab.load_history: the rows are counted, the page is cut back to
\* the last one, and the rows of the page are read.
load_history(h, db) ==
    LET search == Strip(h.search_edit)
        total_rows == Len(get_results(db, search, CountLimit, 0))
        total_pages == TotalPages(total_rows, h.page_size)
        current_page == IF h.current_page > total_pages THEN total_pages
                        ELSE h.current_page
        offset == (current_page - 1) * h.page_size
    IN  [h EXCEPT !.total_rows = total_rows,
                  !.current_page = current_page,
                  !.results_cache =
                      get_results(db, search, h.page_size, offset),
                  !.loaded = search]

\* The entries of page_size_combo.
PageSizes == {10, 20, 50, 100}

\* What the user types into the search field.
SearchTexts == {"", "x "}

\* A step of the history tab: the attributes and the table after it.
HistoryStep(h, db) ==
    /\ GuiIdle
    /\ \E loaded \in {load_history(h, db)} : hist' = loaded
    /\ dbResults' = db
    /\ UNCHANGED <<call, store, dbModels, conn, win, threads, events>>

\* MainWindow.on_tab_changed(3): the history tab is shown.
on_tab_changed == HistoryStep(hist, dbResults)

\* The user edits the search field; nothing is loaded before Return.
EditSearch(text) ==
    /\ GuiIdle
    /\ hist.search_edit # text
    /\ hist' = [hist EXCEPT !.search_edit = text]
    /\ UNCHANGED <<call, store, dbModels, dbResults, conn, win, threads,
                   events>>

search_and_reset ==
    HistoryStep([hist EXCEPT !.current_page = 1], dbResults)

go_first == HistoryStep([hist EXCEPT !.current_page = 1], dbResults)

go_prev ==
    /\ hist.current_page > 1
    /\ HistoryStep([hist EXCEPT !.current_page = @ - 1], dbResults)

go_next ==
    /\ hist.current_page < TotalPages(hist.total_rows, hist.page_size)
    /\ HistoryStep([hist EXCEPT !.current_page = @ + 1], dbResults)

go_last ==
    HistoryStep([hist EXCEPT
                   !.current_page = TotalPages(hist.total_rows,
                                               hist.page_size)],
                dbResults)

\* page_size_combo.currentTextChanged.
change_page_size(value) ==
    /\ value # hist.page_size
    /\ HistoryStep([hist EXCEPT !.page_size = value, !.current_page = 1],
                   dbResults)

\* HistoryTab.delete_selected, the question answered with Yes: a row of the
\* page shown is deleted (one holding "x", or one that does not when the
\* page was loaded without a search text), then the page is loaded again.
delete_selected(kind) ==
    /\ hist.results_cache # <<>>
    /\ kind = "other" => hist.loaded = ""
    /\ dbResults[kind] > 0
    /\ HistoryStep(hist, [dbResults EXCEPT ![kind] = @ - 1])

\* ResultsTab.save_selected with one result selected: db.save_results adds a
\* row; the history tab is not loaded.
SaveResult(kind) ==
    /\ GuiIdle
    /\ dbResults.x + dbResults.other < MaxRows
    /\ dbResults' = [dbResults EXCEPT ![kind] = @ + 1]
    /\ UNCHANGED <<call, store, dbModels, conn, win, threads, events, hist>>

InitHistory ==
    /\ NoCall
    /\ dbModels = NoModels
    /\ dbResults = NoResults
    /\ conn = Connected
    /\ win = MainWindow
    /\ threads = <<>>
    /\ events = <<>>
    /\ hist = HistoryTab

NextHistory ==
    \/ on_tab_changed
    \/ \E text \in SearchTexts : EditSearch(text)
    \/ search_and_reset
    \/ go_first
    \/ go_prev
    \/ go_next
    \/ go_last
    \/ \E value \in PageSizes : change_page_size(value)
    \/ \E kind \in {"x", "other"} : delete_selected(kind)
    \/ \E kind \in {"x", "other"} : SaveResult(kind)

HistorySpec == InitHistory /\ [][NextHistory]_vars

(***************************************************************************)
(* src/models.py: ResultsStore and the selection of its results.           *)
(***************************************************************************)
\* ResultsStore.toggle_selection(index), index counted from 0.
toggle_selection(s, index) ==
    IF 0 <= index /\ index < Len(s.results)
    THEN [s EXCEPT !.results[index + 1].selected = ~@]
    ELSE s

\* ResultsStore.select_all / deselect_all.
select_all(s) ==
    [s EXCEPT !.results =
        [k \in 1..Len(s.results) |-> [s.results[k] EXCEPT !.selected = TRUE]]]
deselect_all(s) ==
    [s EXCEPT !.results =
        [k \in 1..Len(s.results) |-> [s.results[k] EXCEPT !.selected = FALSE]]]

\* ResultsStore.get_selected: [r for r in self._results if r.selected].
RECURSIVE Comprehension(_, _)
Comprehension(rs, k) ==
    IF k > Len(rs) THEN <<>>
    ELSE IF rs[k].selected THEN <<rs[k]>> \o Comprehension(rs, k + 1)
    ELSE Comprehension(rs, k + 1)
get_selected(s) == Comprehension(s.results, 1)

\* ResultsStore.clear.
clear(s) == ResultsStore

\* The models of the batches the store is given, and the batches: up to
\* MaxModels results, each an answer or a failure.
StoreModels ==
    { ModelDict(101, "GPT", "openai", "KEY_SET", {}),
      ModelDict(102, "Claude", "anthropic", "KEY_SET", {}) }
StoreResults(p) ==
    {BuildOutcome(m, p, r).value : m \in StoreModels, r \in SessionResponses}
Batches(p, longest) ==
    UNION {[1..n -> StoreResults(p)] : n \in 0..longest}

\* on_requests_finished hands a batch to the store.
SetResults(p, rs) ==
    /\ store' = set_results(store, p, rs)
    /\ UNCHANGED <<call, app>>

\* The checkbox of a row of the results table, or a call with any index.
ToggleSelection(index) ==
    /\ store' = toggle_selection(store, index)
    /\ UNCHANGED <<call, app>>

\* The buttons of the results tab.
SelectAll ==
    /\ store' = select_all(store)
    /\ UNCHANGED <<call, app>>
DeselectAll ==
    /\ store' = deselect_all(store)
    /\ UNCHANGED <<call, app>>
ClearResults ==
    /\ store' = clear(store)
    /\ UNCHANGED <<call, app>>

InitStore == NoCall /\ Constructed

NextStore ==
    \/ \E p \in {"A"} : \E rs \in Batches(p, MaxModels) : SetResults(p, rs)
    \/ \E index \in (0 - 1)..MaxModels : ToggleSelection(index)
    \/ SelectAll
    \/ DeselectAll
    \/ ClearResults

StoreSpec == InitStore /\ [][NextStore]_vars


(***************************************************************************)
(* Properties of send_to_models / send_to_models_sync.                     *)
(***************************************************************************)
\* C1: for a list of N >= 0 models that each carry an id and a name, the call
\* ends by returning a list of exactly N outcomes, and the outcome at index i
\* carries the id and the name of the input model at index i, whether call i
\* succeeded, returned a failure or raised; whatever list is returned has
\* that shape.
C1_IndexAligned ==
    Ended =>
      /\ (\A i \in 1..N : HasIdentity(models[i])) => escaped = None
      /\ escaped = None =>
           /\ Len(results) = N
           /\ \A i \in 1..N : /\ results[i].model_id = models[i].id
                              /\ results[i].model_name = models[i].name

\* A returned batch of three: one call succeeded, one returned a failure, one
\* raised.
C1_Witness ==
    /\ Returned
    /\ N = 3
    /\ \E i, j, k \in 1..N :
          /\ results[i].success
          /\ task[j].kind = "result" /\ ~results[j].success
          /\ task[k].kind = "exception"

\* C2: the outcome at index i of the returned list is the outcome of the call
\* for the input model at index i (its id, and success exactly when that
\* model's provider answered with a successful response), in whatever order
\* the calls completed.
C2_InputOrder ==
    Returned =>
      \A i \in 1..N :
         /\ results[i].model_id = models[i].id
         /\ results[i].success = (io[i] = OkReply)

\* Models [A, B, C], all in flight; C completed first, then A, then B; B
\* failed, A and C succeeded; the list returned is [A ok, B failed, C ok].
C2_Witness ==
    /\ Returned
    /\ N = 3
    /\ doneOrder = <<3, 1, 2>>
    /\ io[1] = OkReply /\ io[2] = HttpResponse(500, BodyBoom) /\ io[3] = OkReply
    /\ results[1].success /\ ~results[2].success /\ results[3].success
    /\ \A i \in 1..3 : results[i].model_id = models[i].id

C4_NoExceptionEscapes == Ended => escaped = None

\* C5: a model whose credential variable is unset or empty never causes a
\* POST, whatever else is in the batch (so a batch of such models makes no
\* network call at all), and in the list returned its outcome is the failure
\* "API-klyuch ne nastroen" built by the adapter of its provider.
C5_UnconfiguredNeverPosts ==
    /\ \A i \in 1..N :
          Unconfigured(models[i]) => posts[i] = 0 /\ io[i] = NoReply
    /\ Returned =>
         \A i \in 1..N :
            Unconfigured(models[i]) =>
               /\ client[i].cls = ClientClass(models[i].provider)
               /\ results[i].success = FALSE
               /\ results[i].error = NotConfiguredMsg
               /\ results[i].response = "Oshibka: " \o NotConfiguredMsg

\* A mixed batch returned: the first model had its key and its POST
\* succeeded, the Google model (key unset) and the OpenRouter model (key
\* empty) got the "not configured" failure without a POST.
C5_Witness ==
    /\ Returned
    /\ N = 3
    /\ posts[1] = 1 /\ results[1].success
    /\ client[2].cls = "GoogleClient" /\ client[3].cls = "OpenRouterClient"
    /\ \A i \in 2..3 : /\ Unconfigured(models[i])
                       /\ posts[i] = 0
                       /\ results[i].error = NotConfiguredMsg

\* C6: no model is ever posted to twice, and when the call ends a model whose
\* client is configured has caused exactly one POST and every other model
\* none, whatever the outcome of the attempt was.
C6_OneAttempt ==
    /\ \A i \in 1..N : posts[i] <= 1
    /\ Ended =>
         \A i \in 1..N :
            posts[i] = IF Configured(models[i]) THEN 1 ELSE 0

\* The call ended after an HTTP 500, a timeout and a model without key: one
\* POST each for the first two, none for the third.
C6_Witness ==
    /\ Ended
    /\ \E i, j, k \in 1..N :
          /\ io[i] = HttpResponse(500, BodyBoom) /\ posts[i] = 1
          /\ io[j] = TimeoutException /\ posts[j] = 1
          /\ Unconfigured(models[k]) /\ posts[k] = 0

\* C7: when exactly one call of a batch got no answer within the timeout, its
\* outcome is the failure "Prevysheno vremya ozhidaniya otveta", every
\* sibling that issued a POST was answered by its own provider, and every
\* sibling's outcome is the one a dispatch of that model alone would give.
C7_TimeoutIsolated ==
    Returned =>
      \A j \in 1..N :
         (/\ io[j] = TimeoutException
          /\ \A k \in 1..N \ {j} : io[k] # TimeoutException) =>
            /\ results[j].success = FALSE
            /\ results[j].error = TimeoutMsg
            /\ \A i \in 1..N \ {j} :
                  /\ posts[i] = 1 => io[i] \in Replies
                  /\ results[i] = Solo(models[i], prompt, timeout, io[i])

\* Three calls in flight, the second timed out first; the other two were
\* answered afterwards, one with success and one with HTTP 500.
C7_Witness ==
    /\ Returned
    /\ N = 3
    /\ doneOrder[1] = 2
    /\ io[2] = TimeoutException
    /\ results[2].error = TimeoutMsg
    /\ io[1] = OkReply /\ results[1].success
    /\ io[3] = HttpResponse(500, BodyBoom) /\ ~results[3].success

\* C8: when send_to_models_sync ends, every call of the batch has finished
\* exactly once (none is pending or in flight), and the list returned holds
\* for each input model the one outcome of its call.
C8_AllFixedAtReturn ==
    Ended =>
      /\ \A i \in 1..N : st[i] = "done" /\ task[i].kind # "none"
      /\ Len(doneOrder) = N
      /\ \A i \in 1..N : \E k \in 1..N : doneOrder[k] = i
      /\ escaped = None =>
           /\ Len(results) = N
           /\ \A i \in 1..N :
                 results[i] =
                    IF task[i].kind = "result" THEN task[i].value
                    ELSE ExceptionOutcome(models[i], prompt, task[i].msg)

\* Three calls were in flight and answered in the order 2, 3, 1 before the
\* call returned.
C8_Witness ==
    /\ Returned
    /\ N = 3
    /\ \A i \in 1..N : posts[i] = 1
    /\ doneOrder = <<2, 3, 1>>

\* C9: every call to send_to_models_sync eventually ends with every one of
\* its calls at a fixed outcome, even if no provider ever answers; for models
\* that carry an id and a name it ends by returning.
C9_EventuallyEnds ==
    <>(/\ Ended
       /\ \A i \in 1..N : st[i] = "done"
       /\ (\A i \in 1..N : HasIdentity(models[i])) => escaped = None)

\* The call returned although none of its three providers ever answered.
C9_Witness ==
    /\ Returned
    /\ N = 3
    /\ \A i \in 1..N : io[i] = TimeoutException /\ results[i].error = TimeoutMsg

\* C10: the task at the head of the loop's queue can always take its first
\* step, whatever the state of the calls in flight, and no call in flight has
\* completed while a call is still to be started: starting a call never
\* waits for another call.
C10_StartsDoNotWait ==
    /\ (pc = "gather" /\ ready # <<>>) => ENABLED StartTask(Head(ready))
    /\ \A j \in 1..N :
          st[j] = "pending" =>
             \A i \in 1..N : posts[i] = 1 => st[i] = "inflight"

\* All N = MaxModels calls are in flight at the same time.
C10_Witness ==
    /\ N = MaxModels
    /\ \A i \in 1..N : st[i] = "inflight" /\ posts[i] = 1 /\ io[i] = NoReply

(***************************************************************************)
(* Properties of the provider adapters.                                    *)
(***************************************************************************)
\* sub occurs in s.
Contains(s, sub) ==
    \E k \in 1..(Len(s) - Len(sub) + 1) : SubSeq(s, k, k + Len(sub) - 1) = sub

\* The call of model i was answered with an HTTP response.
Answered(i) == posts[i] = 1 /\ io[i].kind = "response"

\* C11: for each of the four adapters, the answer HTTP 500 with the body
\* {"error":{"message":"boom"}} gives a failed outcome whose error contains
\* both "500" and "boom".
C11_Http500Detail ==
    Returned =>
      \A i \in 1..N :
         (Answered(i) /\ io[i] = HttpResponse(500, BodyBoom)) =>
            /\ ~results[i].success
            /\ Contains(results[i].error, "500")
            /\ Contains(results[i].error, "boom")

\* C12: for every adapter, the outcome of a call answered with a well-formed
\* body or with the body of an error is a success exactly when the status is
\* a 2xx one and the body is well-formed for the vendor.
C12_SuccessIffTwoXX ==
    Returned =>
      \A i \in 1..N :
         (Answered(i) /\ io[i].body \in WellFormedBodies \cup ErrorBodies) =>
            results[i].success =
               (/\ IsSuccessStatus(io[i].status)
                /\ io[i].body \in WellFormedBodies)

\* C13: for every adapter, an answer with a successful status whose body
\* lacks a key on the response-text or usage path, or holds a null there,
\* gives a failed outcome carrying a message; nothing is raised.
C13_MalformedBodyFails ==
    Ended =>
      \A i \in 1..N :
         (Answered(i) /\ io[i].status = 200
                      /\ io[i].body \in MalformedBodies) =>
            /\ task[i].kind = "result"
            /\ escaped = None
            /\ ~results[i].success
            /\ results[i].error \notin {None, ""}

\* C14: in every outcome a call built and in every outcome of the list
\* returned, the error is None exactly when success is true.
C14_ErrorIffFailure ==
    /\ \A i \in 1..N :
          task[i].kind = "result" =>
             (task[i].value.error = None) = task[i].value.success
    /\ Returned =>
         \A i \in 1..N : (results[i].error = None) = results[i].success

\* A failed outcome whose exception had an empty description: the error is
\* the empty string, not None.
C14_Witness ==
    /\ Returned
    /\ io[1] = TransportError("")
    /\ ~results[1].success
    /\ results[1].error = ""

\* The usage an answer built with UsageMembers(usage) reports to the adapter
\* class cls, 0 when it reports none.
ReportedUsage(cls, usage) ==
    CASE usage = "reported" -> 7
      [] usage = "partial" /\ cls = "AnthropicClient" -> 3
      [] OTHER -> 0

\* C15: a failed outcome has 0 tokens; an answer with status 200 that holds
\* the response text gives a successful outcome whose tokens are the usage
\* the provider reported (total_tokens, input_tokens + output_tokens,
\* totalTokenCount), and 0 when the usage object or the field is absent.
C15_TokensReportedOrZero ==
    Returned =>
      \A i \in 1..N :
         /\ ~results[i].success => results[i].tokens = 0
         /\ \A u \in {"reported", "absent", "empty", "partial"} :
               (Answered(i)
                  /\ io[i] = HttpResponse(200, AnswerBody(JStr("hi"), u))) =>
                  /\ results[i].success
                  /\ results[i].tokens = ReportedUsage(client[i].cls, u)

\* The Anthropic adapter answered without a usage object: success, 0 tokens.
C15_Witness ==
    /\ Returned
    /\ client[1].cls = "AnthropicClient"
    /\ io[1] = HttpResponse(200, AnswerBody(JStr("hi"), "absent"))
    /\ results[1].success
    /\ results[1].tokens = 0

\* C16: the client of a model has the adapter class of its provider
\* (openai, anthropic, google, openrouter), the OpenAI-compatible class for
\* any other provider; for such a provider nothing is raised and the call
\* returns the one outcome of the model.
C16_UnknownProviderFallsBack ==
    /\ \A i \in 1..N :
          client[i] # NoClient =>
             client[i].cls =
                CASE models[i].provider = "openai" -> "OpenAIClient"
                  [] models[i].provider = "anthropic" -> "AnthropicClient"
                  [] models[i].provider = "google" -> "GoogleClient"
                  [] models[i].provider = "openrouter" -> "OpenRouterClient"
                  [] OTHER -> "OpenAIClient"
    /\ Ended =>
         \A i \in 1..N :
            (/\ HasClientKeys(models[i])
             /\ models[i].provider
                   \notin {"openai", "anthropic", "google", "openrouter"}) =>
               /\ task[i].kind = "result"
               /\ escaped = None
               /\ Len(results) = N
               /\ results[i].model_id = models[i].id

\* The model of the provider "deepseek" was served by the OpenAI-compatible
\* adapter and its call succeeded.
C16_Witness ==
    /\ Returned
    /\ models[1].provider = "deepseek"
    /\ client[1].cls = "OpenAIClient"
    /\ posts[1] = 1
    /\ results[1].success
    /\ results[1].response = "hi"

\* The body has no error.message: it is not JSON, or has no error key, or
\* its error is not an object.
NoErrorMessage(body) ==
    \/ body.parsed = NotJson
    \/ body.parsed.t # "obj"
    \/ ~HasKey(body.parsed, "error")
    \/ Lookup(body.parsed, "error").t # "obj"

\* C19: for an answer with a non-2xx status the error contains the status
\* code, and when the body has no error.message the message part of the
\* error of the OpenAI-compatible and OpenRouter adapters is the first 200
\* characters of the raw body, so never longer than 200 characters.
C19_ErrorDetailBounded ==
    Returned =>
      \A i \in 1..N :
         (Answered(i) /\ ~IsSuccessStatus(io[i].status)) =>
            /\ ~results[i].success
            /\ Contains(results[i].error, ToString(io[i].status))
            /\ (/\ client[i].cls \in {"OpenAIClient", "OpenRouterClient"}
                /\ NoErrorMessage(io[i].body)) =>
                  /\ results[i].error =
                        "HTTP " \o ToString(io[i].status) \o ": "
                                \o Prefix(io[i].body.text, 200)
                  /\ Len(results[i].error)
                        <= Len("HTTP " \o ToString(io[i].status) \o ": ")
                           + 200

(***************************************************************************)
(* Properties of repeated and of concurrent calls, and of the window.      *)
(***************************************************************************)
\* C17: when the second of two calls with the same prompt, model list and
\* timeout ends, the transport having answered each model as in the first
\* call, it ends as the first did: it raises if and only if the first did,
\* and else returns a list of the same length with the same success flag and
\* the same response at every index, in whatever order its calls completed.
C17_SecondCallAgrees ==
    (Ended /\ history # <<>>) =>
       /\ escaped = history[1].escaped
       /\ Len(results) = Len(history[1].results)
       /\ \A i \in 1..Len(results) :
             /\ results[i].success = history[1].results[i].success
             /\ results[i].response = history[1].results[i].response

\* Both calls returned the same three outcomes, a success and a failure
\* among them; the calls of the second completed in the order 3, 2, 1.
C17_Witness ==
    /\ Returned
    /\ history # <<>>
    /\ N = 3
    /\ doneOrder = <<3, 2, 1>>
    /\ \A i \in 1..N : posts[i] = 1
    /\ \E i, j \in 1..N : results[i].success /\ ~results[j].success
    /\ results = history[1].results

\* The tasks that hold the object k.
Holders(k) == { i \in 1..N : k \in {refs[i].adapter, refs[i].http} }

\* C18: a task holds an adapter exactly when send_single built its client,
\* and an HTTP client exactly when it issued its POST; every object created
\* during the call is held by exactly one task, so no adapter and no HTTP
\* client is shared by two calls; and a step of the loop changes the state of
\* at most one call and never the prompt, the model list or the timeout the
\* calls read.
C18_ClientsExclusive ==
    /\ [](/\ \A i \in 1..N :
               /\ (refs[i].adapter # 0) = (client[i] # NoClient)
               /\ refs[i].adapter # 0 =>
                     heap[refs[i].adapter] = client[i].cls
               /\ (refs[i].http # 0) = (posts[i] = 1)
               /\ refs[i].http # 0 => heap[refs[i].http] = "httpx.AsyncClient"
          /\ \A k \in 1..Len(heap) : Cardinality(Holders(k)) = 1)
    /\ [][(pc = "gather" /\ pc' = "gather") =>
             /\ Cardinality({ i \in 1..N :
                   <<st[i], client[i], io[i], task[i], posts[i], refs[i]>>'
                      # <<st[i], client[i], io[i], task[i], posts[i],
                          refs[i]>> }) <= 1
             /\ UNCHANGED <<prompt, models, timeout>>]_vars

\* Three calls in flight, two of them to models of one provider: six
\* objects, each task with its own adapter and its own HTTP client.
C18_Witness ==
    /\ N = 3
    /\ \A i \in 1..N : st[i] = "inflight"
    /\ models[1].provider = models[2].provider
    /\ Len(heap) = 6
    /\ refs[1].adapter # refs[2].adapter
    /\ refs[1].http # refs[2].http

\* C20: when the worker's finished signal was handled, the ResultsStore
\* holds exactly the N outcomes send_to_models_sync returned, in their
\* order, each with its model, success flag, error and response, under the
\* prompt of the batch, whatever number of them failed; the table shows one
\* row per outcome, a failed one marked; and only a call that raised ends in
\* on_requests_error.
C20_BatchStoredWhole ==
    /\ gui \in {"shown", "slot raised"} =>
          /\ Returned
          /\ store.current_prompt = prompt
          /\ Len(store.results) = N
          /\ \A i \in 1..N :
                /\ store.results[i].model_id = models[i].id
                /\ store.results[i].model_name = results[i].model_name
                /\ store.results[i].success = results[i].success
                /\ store.results[i].error = results[i].error
                /\ store.results[i].response = results[i].response
    /\ gui = "shown" =>
          /\ Len(table) = N
          /\ \A i \in 1..N :
                /\ table[i].model = results[i].model_name
                /\ table[i].red = ~results[i].success
                /\ table[i].tooltip = results[i].response
    /\ gui = "error" => ~Returned

\* A batch of three of which two failed is stored and shown in full.
C20_Witness ==
    /\ gui = "shown"
    /\ N = 3
    /\ store.results[1].success
    /\ ~store.results[2].success /\ ~store.results[3].success
    /\ Len(table) = 3
    /\ table[2].red /\ ~table[1].red

(***************************************************************************)
(* Properties of the dispatch as the window uses it.                       *)
(***************************************************************************)
\* C22: every adapter call of one dispatch uses the timeout passed to
\* send_to_models and not the constructor's default of 60: whenever the
\* HTTP request of a model of the batch has been issued, its client's
\* timeout is the timeout argument of the call, so all the calls of the
\* batch share that one value.
C22_TimeoutOfTheDispatch ==
    \A i \in 1..N :
       posts[i] > 0 =>
          /\ client[i].timeout = timeout
          /\ \A j \in 1..N : posts[j] > 0 => client[j].timeout = client[i].timeout

\* Two requests of one batch are out, with a timeout that is not the default.
C22_Witness ==
    /\ timeout # DefaultTimeout
    /\ \E i, j \in 1..N :
          /\ i # j
          /\ posts[i] = 1 /\ posts[j] = 1
          /\ client[i].cls # client[j].cls
          /\ client[i].timeout = timeout /\ client[j].timeout = timeout

\* C27: in every outcome send_to_models returns, response is the text the
\* provider answered when success is true, and "Oshibka: " followed by the
\* error detail when success is false, for a failure the adapter returned as
\* for an exception caught at the gather boundary (whose detail is the text
\* of the exception); prompt_text is the dispatched prompt.
C27_ResponseField ==
    Returned =>
       \A i \in 1..Len(results) :
          /\ results[i].prompt_text = prompt
          /\ results[i].success =>
                /\ Answered(i) /\ io[i] = OkReply
                /\ results[i].response = "hi"
          /\ ~results[i].success =>
                /\ results[i].response = "Oshibka: " \o results[i].error
                /\ task[i].kind = "exception" =>
                      results[i].error = task[i].msg
                /\ (task[i].kind = "result" /\ posts[i] = 0) =>
                      results[i].error = NotConfiguredMsg

\* A returned batch with an answer, a failure of an adapter and an exception
\* caught at the gather boundary.
C27_Witness ==
    /\ Returned
    /\ \E i, j, k \in 1..Len(results) :
          /\ results[i].success /\ results[i].response = "hi"
          /\ ~results[j].success /\ task[j].kind = "result"
          /\ results[j].response = "Oshibka: " \o NotConfiguredMsg
          /\ ~results[k].success /\ task[k].kind = "exception"
          /\ results[k].response = "Oshibka: 'provider'"
          /\ results[k].prompt_text = prompt

(***************************************************************************)
(* Properties of the table of models and of the send button.               *)
(***************************************************************************)
\* The ids of the rows of models whose active flag is set.
ActiveIds ==
    {dbModels.rows[k].id :
        k \in {j \in 1..Len(dbModels.rows) : dbModels.rows[j].is_active # 0}}

\* C21: a click on send dispatches to exactly the models whose active flag is
\* set at the moment of the click, whatever add_model, toggle_model_active,
\* update_model and delete_model did before: the RequestWorker the click
\* starts gets one dict per active row, with the columns of that row, so no
\* inactive and no deleted model is among them; and a click with no active
\* model starts no worker.
C21_DispatchToActive ==
    [][LET n == Len(threads')
           started == n = Len(threads) + 1
       IN  /\ ActiveIds = {} => threads' = threads
           /\ started =>
                \A ms \in {threads'[n].models} :
                   /\ threads'[n].kind = "request"
                   /\ ActiveIds # {}
                   /\ Len(ms) = Cardinality(ActiveIds)
                   /\ {ms[k].id : k \in 1..Len(ms)} = ActiveIds
                   /\ \A k \in 1..Len(ms) :
                         \E j \in 1..Len(dbModels.rows) :
                            LET row == dbModels.rows[j] IN
                            /\ row.id = ms[k].id
                            /\ row.name = ms[k].name
                            /\ row.provider = ms[k].provider
                            /\ row.api_url = ms[k].api_url
                            /\ row.api_key_env = ms[k].api_key_env
                            /\ row.model_id = ms[k].model_id]_vars

\* A worker was started for a default model that was switched on and a model
\* of the form, while another default model was inactive and a row had been
\* deleted.
C21_Witness ==
    /\ Len(threads) = 1
    /\ \E k, j \in 1..Len(threads[1].models) :
          /\ threads[1].models[k].provider = "openrouter"
          /\ threads[1].models[j].provider = "openai"
    /\ \E k \in 1..Len(dbModels.rows) :
          /\ dbModels.rows[k].is_active = 0
          /\ dbModels.rows[k].id \notin
                {threads[1].models[j].id : j \in 1..Len(threads[1].models)}
    /\ dbModels.seq > Len(dbModels.rows)

\* C30: add_default_models is idempotent.  From every table the window can
\* reach: a call keeps every row as it is (its active flag too) and in its
\* place; each row it adds is inactive, carries a default name no row had
\* and no other added row has, and a new id; afterwards every default name
\* is in the table; and a second call right after it changes nothing.
C30_DefaultsIdempotent ==
    \A t0 \in {dbModels} :
       \A t1 \in {add_default_models(t0)} :
          LET old == Len(t0.rows)
              names == {default_models[k].name :
                           k \in 1..Len(default_models)}
          IN  /\ add_default_models(t1) = t1
              /\ Len(t1.rows) >= old
              /\ SubSeq(t1.rows, 1, old) = t0.rows
              /\ \A k \in (old + 1)..Len(t1.rows) :
                    /\ t1.rows[k].is_active = 0
                    /\ t1.rows[k].name \in names
                    /\ t1.rows[k].id > t0.seq
                    /\ \A j \in 1..Len(t1.rows) :
                          t1.rows[j].name = t1.rows[k].name => j = k
              /\ \A name \in names :
                    \E k \in 1..Len(t1.rows) : t1.rows[k].name = name

\* The defaults were added to a table that held an active model of the form
\* under a default name: seven rows came, and that model is as it was.
C30_Witness ==
    /\ Len(dbModels.rows) = 8
    /\ dbModels.seq = 8
    /\ \E k \in 1..8 :
          /\ dbModels.rows[k].name = "Kimi K2 (free)"
          /\ dbModels.rows[k].provider = "openai"
          /\ dbModels.rows[k].is_active = 1
          /\ dbModels.rows[k].id = 1
    /\ \A k \in 1..8 :
          dbModels.rows[k].provider = "openrouter" =>
             /\ dbModels.rows[k].name # "Kimi K2 (free)"
             /\ dbModels.rows[k].is_active = 0

(***************************************************************************)
(* Properties of the session: the buttons, the workers, the connection.    *)
(***************************************************************************)
\* The RequestWorkers whose batch is in flight: started, its slot not run.
InFlight ==
    {w \in DOMAIN threads :
        threads[w].kind = "request" /\ threads[w].state # "handled"}

\* C23: while a RequestWorker started by send_requests is running, no second
\* one can be started: the send button stays disabled from the start of the
\* batch until its finished or error slot runs, in every interleaving with
\* improve_prompt, on_improve_finished and on_improve_error, so at most one
\* batch is in flight.
C23_OneBatchInFlight ==
    /\ Cardinality(InFlight) <= 1
    /\ InFlight # {} => ~win.send_btn

\* C24: whenever a batch is placed in the ResultsStore, current_prompt is the
\* prompt that was dispatched for exactly those results: it equals the
\* prompt_text of every stored result, for every sequence of sends and
\* improvements and every order in which the workers end.
C24_StoredUnderItsPrompt ==
    \A k \in 1..Len(store.results) :
       store.results[k].prompt_text = store.current_prompt

\* C25: every started worker eventually re-enables the interface.  A run of
\* a RequestWorker or of an ImproveWorker ends by emitting exactly one
\* signal, finished or error; while the window is open that signal is
\* handled, and the slot that handles it leaves the send button enabled and
\* the progress bar hidden, and for an ImproveWorker the improve button
\* enabled as well.
C25_InterfaceReenabled ==
    /\ \A w \in 1..MaxThreads :
          (w \in DOMAIN threads) ~>
             \/ w \in DOMAIN threads /\ threads[w].state = "handled"
             \/ win.closed
    /\ [](\A w \in DOMAIN threads :
             /\ threads[w].state \in {"emitted", "handled"} <=>
                   threads[w].signal \in {"finished", "error"}
             /\ Cardinality({k \in DOMAIN events : events[k] = w})
                   = IF threads[w].state = "emitted" THEN 1 ELSE 0)
    /\ [][\A w \in DOMAIN threads :
             (threads[w].state = "emitted" /\ threads'[w].state = "handled")
                => /\ win'.send_btn
                   /\ ~win'.progress
                   /\ threads[w].kind = "improve" => win'.improve_btn]_vars

\* Both kinds of worker ended both ways, and every signal was handled with
\* the window open.
C25_Witness ==
    /\ ~win.closed
    /\ \A w \in DOMAIN threads : threads[w].state = "handled"
    /\ \E a, b, c \in DOMAIN threads :
          /\ threads[a].kind = "request" /\ threads[a].signal = "finished"
          /\ threads[b].kind = "request" /\ threads[b].signal = "error"
          /\ threads[c].kind = "improve" /\ threads[c].signal = "finished"
    /\ win.send_btn /\ win.improve_btn /\ ~win.progress

\* C26: the one SQLite connection is never used by two threads at the same
\* time and never after close: while the ImproveWorker thread reads the
\* improve_model setting the GUI thread is in no call on the connection, and
\* closeEvent closes it only when no worker is in or before its read.
C26_ConnectionExclusive ==
    /\ Cardinality(conn.inside) <= 1
    /\ ~conn.open =>
          /\ conn.inside = {}
          /\ \A w \in DOMAIN threads :
                threads[w].kind = "improve" =>
                   threads[w].state \notin {"started", "reading"}

(***************************************************************************)
(* Properties of the history tab and of the store of results.              *)
(***************************************************************************)
\* The least number of pages, at least one, that hold total_rows rows.
CeilPages(total_rows, page_size) ==
    CHOOSE p \in 1..(total_rows + 1) :
        /\ p * page_size >= total_rows
        /\ p = 1 \/ (p - 1) * page_size < total_rows

\* The history tab as load_history leaves it: the page is one of the pages,
\* and the rows shown are the rows from offset (current_page - 1) * page_size
\* on, a page of them or as many as are left.
PageShown ==
    LET offset == (hist.current_page - 1) * hist.page_size
    IN  /\ 1 <= hist.current_page
        /\ hist.current_page <= CeilPages(hist.total_rows, hist.page_size)
        /\ Len(hist.results_cache) <= hist.page_size
        /\ \A k \in 1..Len(hist.results_cache) :
               hist.results_cache[k] = offset + k
        /\ \/ Len(hist.results_cache) = hist.page_size
           \/ offset + Len(hist.results_cache) = hist.total_rows

\* A step that loaded the history: the attributes changed and the search
\* field did not.
Loaded ==
    /\ hist' # hist
    /\ hist'.search_edit = hist.search_edit

\* C28: after every load of the history, whichever of go_first, go_prev,
\* go_next, go_last, change_page_size, search_and_reset and the deletion of a
\* record led to it, 1 <= current_page <= total_pages with total_pages =
\* max(1, ceil(total_rows / page_size)), the rows shown are those at offset
\* (current_page - 1) * page_size, and total_rows is the number of rows the
\* search matched in the table as the load found it.
C28_HistoryPage ==
    /\ []PageShown
    /\ [][Loaded =>
            /\ hist'.loaded = Strip(hist.search_edit)
            /\ hist'.total_rows = Matching(dbResults', hist'.loaded)]_vars

\* The last page held one row, that row was deleted, and the page before it
\* is shown in full.
C28_Witness ==
    /\ hist.current_page = 2
    /\ hist.page_size = 10
    /\ hist.total_rows = 20
    /\ hist.loaded = "x"
    /\ dbResults.x = 20
    /\ Len(hist.results_cache) = 10
    /\ hist.results_cache[1] = 11

\* The selected results, by their places: the places are taken in rising
\* order.
RECURSIVE InOrder(_, _)
InOrder(rs, places) ==
    IF places = {} THEN <<>>
    ELSE LET first == CHOOSE k \in places : \A j \in places : k <= j
         IN  <<rs[first]>> \o InOrder(rs, places \ {first})

\* The batches the property hands to set_results.
ShortBatches == Batches("B", 2)

\* C29: set_results replaces the stored batch and leaves every result
\* unselected; get_selected returns, in stored order, exactly the results
\* whose flag is set, whatever toggle_selection, select_all and deselect_all
\* did before; toggle_selection with an index outside 0..len-1 changes
\* nothing, and toggling a valid index twice restores the selection.
C29_StoreSelection ==
    /\ \A rs \in ShortBatches : \A after \in {set_results(store, "B", rs)} :
           /\ Len(after.results) = Len(rs)
           /\ after.current_prompt = "B"
           /\ \A k \in 1..Len(rs) :
                  /\ ~after.results[k].selected
                  /\ after.results[k].model_id = rs[k].model_id
                  /\ after.results[k].response = rs[k].response
                  /\ after.results[k].success = rs[k].success
           /\ get_selected(after) = <<>>
    /\ get_selected(store) =
           InOrder(store.results,
                   {k \in 1..Len(store.results) : store.results[k].selected})
    /\ get_selected(select_all(store)) = select_all(store).results
    /\ get_selected(deselect_all(store)) = <<>>
    /\ \A index \in {0 - 2, 0 - 1, Len(store.results),
                     Len(store.results) + 1} :
           toggle_selection(store, index) = store
    /\ \A index \in 0..(Len(store.results) - 1) :
           \A once \in {toggle_selection(store, index)} :
               /\ once.results[index + 1].selected
                      = ~store.results[index + 1].selected
               /\ \A k \in 1..Len(store.results) :
                      k # index + 1 => once.results[k] = store.results[k]
               /\ toggle_selection(once, index) = store

\* A batch of three is stored, its first and its last result are selected,
\* the one between them is not.
C29_Witness ==
    /\ Len(store.results) = 3
    /\ store.results[1].selected
    /\ ~store.results[2].selected
    /\ store.results[3].selected
    /\ Len(get_selected(store)) = 2
    /\ get_selected(store)[2] = store.results[3]

====
